---- MODULE Spec2Model ----
(***************************************************************************)
(* The log-shipping handlers of axiom-py:                                  *)
(*   AxiomHandler       (src/src/axiom_py/logging.py), thread based:       *)
(*       emit and flush() run on the application's thread, flush also      *)
(*       runs on threading.Timer threads, and the client's before_shutdown *)
(*       hook flushes and cancels the timer;                               *)
(*   AsyncAxiomHandler  (src/src/axiom_py/logging_async.py), event loop:   *)
(*       emit is synchronous and schedules flush tasks, a periodic task    *)
(*       flushes every interval, close() cancels it and flushes.           *)
(* One handler object is modelled; which class it is, is chosen in Init.   *)
(*                                                                         *)
(* Records are numbered 1, 2, ... in emission order.  Clock values are     *)
(* kept relative to the present: `elapsed` is time.monotonic() -           *)
(* self.last_flush, timer_left / sleep_left are the time a Timer or an     *)
(* asyncio.sleep still has to wait; all saturate.                          *)
(*                                                                         *)
(* Grain of the thread model: AxiomHandler takes no lock in flush, so the  *)
(* statement `local_buffer, self.buffer = self.buffer, []` is two steps,   *)
(* the load of self.buffer and the store of the new list, and threads      *)
(* interleave between them.  A thread that has loaded the list and not yet *)
(* stored holds the very list object emit appends to (`shared`).           *)
(* Grain of the event-loop model: a coroutine runs without interruption    *)
(* from one await to the next.                                             *)
(***************************************************************************)
EXTENDS Integers, Sequences, FiniteSets, Bags, TLC

\* The size threshold of emit, the literal 1000 of logging.py:48 and
\* logging_async.py:104, scaled down; every formula is stated in MAX_BATCH.
MAX_BATCH == 2

\* Records emitted in one behaviour.
MaxEmit == MAX_BATCH

\* ingest_events calls of AsyncAxiomHandler that raise in one behaviour
\* (each one puts its batch back, to be sent again).
MaxFail == 1

\* interval=1, the default of both constructors, in clock units.
Interval == 1

VARIABLES
    handler,          \* "AxiomHandler" or "AsyncAxiomHandler"
    buffer,           \* self.buffer: the records not yet swapped out
    elapsed,          \* time.monotonic() - self.last_flush, saturated
    emitted,          \* number of records handed to emit so far
    calls,            \* the batches ingest_events was called with, a bag
    failures,         \* AsyncAxiomHandler: ingest_events calls that raised and were requeued
    accepted,         \* the records of the batches whose ingest_events call returned
    timer,            \* AxiomHandler: state of the Timer self.timer refers to
    timer_left,       \* AxiomHandler: time the armed Timer still waits
    loopRunning,      \* AsyncAxiomHandler: an event loop is running
    h_loop,           \* AsyncAxiomHandler: self._loop
    cancel_requested, \* AsyncAxiomHandler: flush_task.cancel() not yet delivered
    sleep_left,       \* AsyncAxiomHandler: time asyncio.sleep still waits
    pc,               \* where every thread / task stands
    op,               \* the operation every thread / task is running
    local_buffer,     \* flush's local_buffer, per thread / task
    shared,           \* the thread has loaded self.buffer, which is still that list
    raised,           \* emit, flush() or the shutdown hook raised to its caller
    closed,           \* close() / the shutdown hook has been invoked
    quiet,            \* no time has passed and no flush() / close() / hook was called
    emitSince,        \* an emit ran while the caller's operation was in progress
    streak,           \* flush() calls completed in succession, no emit in between
    streakFail,       \* a failed batch was requeued since the first of them began
    before_shutdown_funcs, \* Client.before_shutdown_funcs, the class attribute
    is_closed,        \* Client.is_closed, per client
    open_sessions,    \* the requests sessions not yet closed, <<client, name>>
    hook,             \* the client whose shutdown_hook is running, or NoClient
    hook_i,           \* shutdown_hook: index of the function the loop is at
    hook_pc,          \* shutdown_hook: "none", "loop", "closed" (sessions closed)
    invoked,          \* the functions the running / last shutdown_hook has invoked
    client_class,     \* "Client" or "AsyncClient": the client a request is made with
    token,            \* the client's token, a string of characters
    url,              \* the url argument of the constructor, or NoUrl
    region,           \* Client: the region argument, or NoRegion
    edge_url,         \* the edge_url argument, or NoUrl
    call,             \* the operation called: name, dataset, saveAsKind
    r_pc,             \* where the operation stands
    target,           \* the URL the operation posts to, or NoUrl
    transport,        \* the URLs of the transport calls made, in order
    received,         \* what the transport calls gave: a status or "RequestError"
    attempt,          \* async_retry: the loop variable
    slept,            \* async_retry: the delays slept, in order
    response,         \* the response handed to the error check
    outcome,          \* what the operation returned or raised
    given,            \* a duration as text, a string of characters
    duration,         \* _convert_string_to_timedelta(given): a timedelta
    serialized,       \* handle_json_serialization(duration), a string of characters
    decoded,          \* _convert_string_to_timedelta(serialized)
    maxDuration,      \* datasets.trim: the timedelta given
    payload,          \* datasets.trim: maxDuration of the TrimRequest sent, a string of characters
    opts,             \* the QueryOptions given to _prepare_query_options, or NoOpts
    params,           \* the Dict _prepare_query_options returned, or NoParams
    ingest_body,      \* res.json() of an ingest response: a dict, its keys strings of characters
    ingest_status,    \* from_dict(IngestStatus, decamelize(res.json())), or what it raised
    lock,             \* AxiomHandler: the thread holding Handler.lock, or NoThread
    em_pc,            \* AxiomHandler: where each logging thread stands in handle / emit
    timers,           \* AxiomHandler: the state of every Timer made, in order of creation
    self_timer,       \* AxiomHandler: the Timer self.timer refers to, an index of timers
    sp_buffer,        \* AxiomProcessor: self.buffer
    sp_elapsed,       \* AxiomProcessor: time.monotonic() - self.last_run, saturated
    sp_pc,            \* AxiomProcessor: where each logging thread stands
    sp_payload,       \* AxiomProcessor: the events each thread's ingest_events call has encoded
    sp_emitted,       \* AxiomProcessor: number of records logged so far
    sp_accepted       \* AxiomProcessor: the records of the calls that returned

hvars == <<handler, buffer, elapsed, emitted, calls, failures, accepted>>
tvars == <<timer, timer_left>>
avars == <<loopRunning, h_loop, cancel_requested, sleep_left>>
pvars == <<pc, op, local_buffer, shared>>
gvars == <<raised, closed, quiet, emitSince, streak, streakFail>>
kvars == <<before_shutdown_funcs, is_closed, open_sessions, hook, hook_i, hook_pc, invoked>>
cfgvars == <<client_class, token, url, region, edge_url>>
rvars == <<cfgvars, call, r_pc, target, transport, received, attempt, slept, response, outcome>>
uvars == <<given, duration, serialized, decoded>>
dvars == <<maxDuration, payload>>
qvars == <<opts, params>>
ivars == <<ingest_body, ingest_status>>
mvars == <<lock, em_pc, timers, self_timer>>
svars == <<sp_buffer, sp_elapsed, sp_pc, sp_payload, sp_emitted, sp_accepted>>
evars == <<qvars, ivars, mvars, svars>>
xvars == <<kvars, rvars, uvars, dvars, evars>>
vars == <<hvars, tvars, avars, pvars, gvars, xvars>>

----------------------------------------------------------------------------
\* Threads and tasks.  Main is the application: the thread that logs and
\* calls flush() / the shutdown hook, or the coroutine that awaits flush()
\* / close().  A worker is a Timer thread that has fired (AxiomHandler) or a
\* task made by emit's create_task(self.flush()) (AsyncAxiomHandler).
\* Periodic is the task of _periodic_flush.

Main == <<"main", 0>>
Worker(k) == <<"worker", k>>
Workers == {Worker(k) : k \in 1..MaxEmit}
Periodic == <<"periodic", 0>>
Procs == {Main} \cup Workers \cup {Periodic}

Min(a, b) == IF a < b THEN a ELSE b
Max(a, b) == IF a > b THEN a ELSE b

\* The records of a batch, as a set.
Range(s) == {s[i] : i \in 1..Len(s)}

Sync == handler = "AxiomHandler"
Async == handler = "AsyncAxiomHandler"

----------------------------------------------------------------------------
\* Pieces of the handlers' code.

\* emit's flush predicate, taken after the append.
ShouldFlush_gt(n, e) == n > MAX_BATCH \/ e > Interval
ShouldFlush(n, e) == n >= MAX_BATCH \/ e > Interval

\* What self.buffer is after `local_buffer, self.buffer = self.buffer, []`.
SwappedBuffer_kept(buf) == buf
SwappedBuffer(buf) == <<>>

\* What a thread's local_buffer holds once some thread has rebound
\* self.buffer: the old list object, which nothing appends to any more.
Detached_alias(isShared, buf, local) == local
Detached(isShared, buf, local) == IF isShared THEN buf ELSE local

\* self.buffer.extend(local_buffer), the requeue of a failed batch.
Requeue_dropped(buf, local) == buf
Requeue(buf, local) == buf \o local

\* Timer.cancel(): a Timer that has not fired will never fire.
CancelTimer_noop(s) == s
CancelTimer(s) == IF s \in {"new", "armed"} THEN "cancelled" ELSE s

\* The list a thread / task holds as its batch.
Batch(p) == IF shared[p] THEN buffer ELSE local_buffer[p]

\* ingest_events(dataset, batch) is called.
Called(batch) == calls (+) SetToBag({batch})

\* Where control goes when flush returns normally to operation o.
AfterFlush(o) ==
    CASE o = "emit" -> "restart"
      [] o = "shutdown" -> "cancel"
      [] o = "timer" -> "none"
      [] o = "task" -> "none"
      [] o = "periodic" -> "sleeping"
      [] o = "periodic_final" -> "done"
      [] OTHER -> "idle"

\* The operation recorded for a thread / task at that place.
OpAt(place, o) == IF place \in {"idle", "none", "done"} THEN "none" ELSE o

\* The first free worker slot.
FreeSlot ==
    CHOOSE k \in 1..MaxEmit :
        pc[Worker(k)] = "none" /\ \A j \in 1..(k - 1) : pc[Worker(j)] # "none"

----------------------------------------------------------------------------
\* The Client objects of the process (client.py); each owns two sessions.
NClients == 2
Clients == 1..NClients
NoClient == 0
SessionNames == {"session", "edge_session"}

\* The class body of Client and Client.__init__ for every client: the list
\* of hooks is empty, is_closed is False, the sessions are open.
ClientInit ==
    /\ before_shutdown_funcs = <<>>
    /\ is_closed = [c \in Clients |-> FALSE]
    /\ open_sessions = Clients \X SessionNames
    /\ hook = NoClient
    /\ hook_i = 0
    /\ hook_pc = "none"
    /\ invoked = <<>>

\* No URL, no region, no operation, no response, no result.
NoUrl == [base |-> <<"", "">>, path |-> <<>>]
NoRegion == ""
NoCall == [name |-> "none", dataset |-> "", kind |-> ""]
NoResponse == [status |-> 0, json |-> FALSE, body |-> <<>>]
NoOutcome == [kind |-> "none", status |-> 0, message |-> <<>>]

\* A client constructed with an API token only.
DefaultConfig ==
    /\ token = <<"x", "a", "a", "t", "-", "1">>
    /\ url = NoUrl
    /\ region = NoRegion
    /\ edge_url = NoUrl

\* Nothing has been called on the client.
NothingCalled ==
    /\ call = NoCall
    /\ r_pc = "idle"
    /\ target = NoUrl
    /\ transport = <<>>
    /\ received = <<>>
    /\ attempt = 0
    /\ slept = <<>>
    /\ response = NoResponse
    /\ outcome = NoOutcome

RequestIdle == client_class = "Client" /\ DefaultConfig /\ NothingCalled

\* No text and no timedelta: nothing is being converted.
NoText == <<"none">>
NoDuration == [kind |-> "none", days |-> 0, seconds |-> 0]
UtilIdle ==
    /\ given = NoText
    /\ duration = NoDuration
    /\ serialized = NoText
    /\ decoded = NoDuration

\* No dataset trimmed.
TrimIdle ==
    /\ maxDuration = NoDuration
    /\ payload = NoText

\* No query options prepared, no ingest response decoded.
NoOpts == [kind |-> "none", streamingDuration |-> NoDuration, nocache |-> FALSE, saveAsKind |-> "None"]
NoParams == [k \in {"none"} |-> <<>>]
NoBody == [k \in {} |-> 0]
NoIngestStatus ==
    [kind |-> "none", ingested |-> 0, failed |-> 0, failures |-> <<>>,
     processed_bytes |-> 0, blocks_created |-> 0, wal_length |-> 0]
DecodeIdle ==
    /\ opts = NoOpts
    /\ params = NoParams
    /\ ingest_body = NoBody
    /\ ingest_status = NoIngestStatus

\* Logging threads, for the handler's timers and for the processor.
NThreads == 2
Threads == 1..NThreads
NoThread == 0

\* AxiomHandler.__init__, logging.py:21 and 35: the lock of
\* logging.Handler is free, self.timer is a Timer not yet started.
TimersInit ==
    /\ lock = NoThread
    /\ em_pc = [t \in Threads |-> "idle"]
    /\ timers = <<"new">>
    /\ self_timer = 1

\* AxiomProcessor.__init__, structlog.py:21-26.
ProcessorInit ==
    /\ sp_buffer = <<>>
    /\ sp_elapsed = 0
    /\ sp_pc = [t \in Threads |-> "idle"]
    /\ sp_payload = [t \in Threads |-> <<>>]
    /\ sp_emitted = 0
    /\ sp_accepted = {}

ExtraIdle == TrimIdle /\ DecodeIdle /\ TimersInit /\ ProcessorInit

HandlerInit ==
    /\ handler \in {"AxiomHandler", "AsyncAxiomHandler"}
    /\ buffer = <<>>
    /\ elapsed = 0
    /\ emitted = 0
    /\ calls = EmptyBag
    /\ failures = 0
    /\ accepted = {}
    /\ timer = IF Sync THEN "new" ELSE "none"
    /\ timer_left = 0
    /\ loopRunning \in IF Async THEN BOOLEAN ELSE {FALSE}
    /\ h_loop = IF loopRunning THEN "loop" ELSE "None"
    /\ cancel_requested = FALSE
    /\ sleep_left = 0
    /\ pc = [p \in Procs |->
                IF p = Main THEN "idle"
                ELSE IF p = Periodic /\ loopRunning THEN "created"
                ELSE "none"]
    /\ op = [p \in Procs |-> IF p = Periodic /\ loopRunning THEN "periodic" ELSE "none"]
    /\ local_buffer = [p \in Procs |-> <<>>]
    /\ shared = [p \in Procs |-> FALSE]
    /\ raised = FALSE
    /\ closed = FALSE
    /\ quiet = TRUE
    /\ emitSince = FALSE
    /\ streak = 0
    /\ streakFail = FALSE

Init == HandlerInit /\ ClientInit /\ RequestIdle /\ UtilIdle /\ ExtraIdle

----------------------------------------------------------------------------
\* Bookkeeping shared by the actions.

\* An emit runs: the succession of flush() calls is broken.
EmitRuns ==
    /\ emitSince' = (pc[Main] # "idle")
    /\ streak' = 0
    /\ streakFail' = FALSE

\* Thread / task p arrives at `place` after flush returned or raised.
\* requeued: ingest_events has just raised and the batch was put back.
Arrives(p, place, requeued) ==
    LET ends == p = Main /\ place = "idle"
        counts == ends /\ op[Main] = "flush"
        inRun == streak >= 1 \/ (op[Main] = "flush" /\ ~emitSince) IN
    /\ pc' = [pc EXCEPT ![p] = place]
    /\ op' = [op EXCEPT ![p] = OpAt(place, @)]
    /\ emitSince' = IF ends THEN FALSE ELSE emitSince
    /\ streak' = IF counts THEN (IF emitSince THEN 0 ELSE Min(streak + 1, 2))
                 ELSE streak
    /\ streakFail' = IF counts /\ emitSince THEN FALSE
                     ELSE IF requeued THEN inRun
                     ELSE streakFail

----------------------------------------------------------------------------
\* AxiomHandler (logging.py)

\* flush, lines 61-64, run by p as operation o: stamp last_flush, return if
\* the buffer is empty.
FlushEntry_unchecked(p, o) ==
    /\ elapsed' = 0
    /\ pc' = [pc EXCEPT ![p] = "load"]
    /\ op' = [op EXCEPT ![p] = o]
FlushEntry(p, o) ==
    /\ elapsed' = 0
    /\ IF Len(buffer) = 0
       THEN /\ pc' = [pc EXCEPT ![p] = AfterFlush(o)]
            /\ op' = [op EXCEPT ![p] = OpAt(AfterFlush(o), o)]
       ELSE /\ pc' = [pc EXCEPT ![p] = "load"]
            /\ op' = [op EXCEPT ![p] = o]

\* emit, lines 46-50: append and test.
Emit ==
    /\ Sync
    /\ pc[Main] = "idle"
    /\ emitted < MaxEmit
    /\ emitted' = emitted + 1
    /\ buffer' = Append(buffer, emitted + 1)
    /\ op' = [op EXCEPT ![Main] = "emit"]
    /\ pc' = [pc EXCEPT ![Main] =
                IF ShouldFlush(Len(buffer'), elapsed) THEN "enter" ELSE "restart"]
    /\ EmitRuns
    /\ UNCHANGED <<handler, accepted, elapsed, calls, failures, tvars, avars, local_buffer,
                   shared, raised, closed, quiet>>
    /\ UNCHANGED xvars

\* emit, line 51: self.flush().
EmitFlush ==
    /\ Sync
    /\ pc[Main] = "enter"
    /\ FlushEntry(Main, "emit")
    /\ UNCHANGED <<handler, accepted, buffer, emitted, calls, failures, tvars, avars,
                   local_buffer, shared, gvars>>
    /\ UNCHANGED xvars

\* emit, lines 54-56: cancel self.timer, make a new Timer and start it.
EmitRestart ==
    /\ Sync
    /\ pc[Main] = "restart"
    /\ timer' = "armed"
    /\ timer_left' = Interval
    /\ pc' = [pc EXCEPT ![Main] = "idle"]
    /\ op' = [op EXCEPT ![Main] = "none"]
    /\ UNCHANGED <<hvars, avars, local_buffer, shared, gvars>>
    /\ UNCHANGED xvars

\* flush() called by the application.
Flush ==
    /\ Sync
    /\ pc[Main] = "idle"
    /\ FlushEntry(Main, "flush")
    /\ quiet' = FALSE
    /\ streak' = IF Len(buffer) = 0 THEN Min(streak + 1, 2) ELSE streak
    /\ UNCHANGED <<handler, accepted, buffer, emitted, calls, failures, tvars, avars,
                   local_buffer, shared, raised, closed, emitSince, streakFail>>
    /\ UNCHANGED xvars

\* The armed Timer's wait is over: its thread calls flush.
TimerFire ==
    /\ Sync
    /\ timer = "armed"
    /\ timer_left = 0
    /\ timer' = "fired"
    /\ FlushEntry(Worker(FreeSlot), "timer")
    /\ UNCHANGED <<handler, accepted, buffer, emitted, calls, failures, timer_left, avars,
                   local_buffer, shared, gvars>>
    /\ UNCHANGED xvars

\* flush, line 66, first half: the list self.buffer refers to is loaded.
FlushLoad(p) ==
    /\ Sync
    /\ pc[p] = "load"
    /\ shared' = [shared EXCEPT ![p] = TRUE]
    /\ pc' = [pc EXCEPT ![p] = "store"]
    /\ UNCHANGED <<hvars, tvars, avars, op, local_buffer, gvars>>
    /\ UNCHANGED xvars

\* flush, lines 66-67: self.buffer is rebound to a new empty list and
\* ingest_events is called with the list loaded before.  Every other thread
\* that had loaded the same list keeps it as its own local_buffer.
FlushStore(p) ==
    /\ Sync
    /\ pc[p] = "store"
    /\ calls' = Called(Batch(p))
    /\ local_buffer' = [q \in Procs |-> Detached(shared[q], buffer, local_buffer[q])]
    /\ shared' = [q \in Procs |-> FALSE]
    /\ buffer' = SwappedBuffer(buffer)
    /\ pc' = [pc EXCEPT ![p] = "ingesting"]
    /\ UNCHANGED <<handler, accepted, elapsed, emitted, failures, tvars, avars, op, gvars>>
    /\ UNCHANGED xvars

\* ingest_events returns; flush returns to what called it.
IngestOk(p) ==
    /\ Sync
    /\ pc[p] = "ingesting"
    /\ local_buffer' = [local_buffer EXCEPT ![p] = <<>>]
    /\ accepted' = accepted \cup Range(local_buffer[p])
    /\ Arrives(p, AfterFlush(op[p]), FALSE)
    /\ UNCHANGED <<handler, buffer, elapsed, emitted, calls, failures, tvars, avars,
                   shared, raised, closed, quiet>>
    /\ UNCHANGED xvars

\* ingest_events raises: flush has no handler for it (line 67), nor has emit
\* (line 51) or before_shutdown (line 39).  On a Timer thread the exception
\* ends the thread; on the application's thread it reaches the caller.
\* The batch is gone either way.
IngestRaises(p) ==
    /\ Sync
    /\ pc[p] = "ingesting"
    /\ local_buffer' = [local_buffer EXCEPT ![p] = <<>>]
    /\ raised' = (raised \/ p = Main)
    /\ Arrives(p, IF p = Main THEN "idle" ELSE "none", FALSE)
    /\ UNCHANGED <<hvars, tvars, avars, shared, closed, quiet>>
    /\ UNCHANGED xvars

\* The hook registered with client.before_shutdown is invoked: self.flush().
Shutdown ==
    /\ Sync
    /\ pc[Main] = "idle"
    /\ ~closed
    /\ closed' = TRUE
    /\ quiet' = FALSE
    /\ FlushEntry(Main, "shutdown")
    /\ streak' = 0
    /\ streakFail' = FALSE
    /\ UNCHANGED <<handler, accepted, buffer, emitted, calls, failures, tvars, avars,
                   local_buffer, shared, raised, emitSince>>
    /\ UNCHANGED xvars

\* before_shutdown, line 40: self.timer.cancel(), and the hook returns.
ShutdownCancel ==
    /\ Sync
    /\ pc[Main] = "cancel"
    /\ timer' = CancelTimer(timer)
    /\ timer_left' = 0
    /\ pc' = [pc EXCEPT ![Main] = "idle"]
    /\ op' = [op EXCEPT ![Main] = "none"]
    /\ UNCHANGED <<hvars, avars, local_buffer, shared, gvars>>
    /\ UNCHANGED xvars

----------------------------------------------------------------------------
\* AsyncAxiomHandler (logging_async.py)

\* An event loop starts running (the handler was constructed outside one).
StartLoop ==
    /\ Async
    /\ ~loopRunning
    /\ loopRunning' = TRUE
    /\ UNCHANGED <<hvars, tvars, h_loop, cancel_requested, sleep_left, pvars, gvars>>
    /\ UNCHANGED xvars

\* flush, lines 131-140 up to the await, run by p as operation o: stamp
\* last_flush, return if the buffer is empty, else swap the buffer and call
\* ingest_events.
AsyncFlushEntry(p, o) ==
    /\ elapsed' = 0
    /\ IF Len(buffer) = 0
       THEN /\ pc' = [pc EXCEPT ![p] = AfterFlush(o)]
            /\ op' = [op EXCEPT ![p] = OpAt(AfterFlush(o), o)]
            /\ UNCHANGED <<buffer, calls>>
       ELSE /\ pc' = [pc EXCEPT ![p] = "ingesting"]
            /\ op' = [op EXCEPT ![p] = o]
            /\ buffer' = SwappedBuffer(buffer)
            /\ calls' = Called(buffer)
    /\ local_buffer' = [local_buffer EXCEPT ![p] = buffer]
    /\ sleep_left' = IF p # Periodic THEN sleep_left
                     ELSE IF Len(buffer) = 0 /\ o = "periodic" THEN Interval
                     ELSE 0

\* emit, lines 100-122.
AsyncEmit ==
    /\ Async
    /\ emitted < MaxEmit
    /\ emitted' = emitted + 1
    /\ buffer' = Append(buffer, emitted + 1)
    /\ IF ShouldFlush(Len(buffer'), elapsed) /\ (h_loop # "None" \/ loopRunning)
       THEN /\ h_loop' = "loop"
            /\ pc' = [p \in Procs |->
                        IF p = Worker(FreeSlot) THEN "created"
                        ELSE IF p = Periodic /\ pc[p] \in {"none", "done"} THEN "created"
                        ELSE pc[p]]
            /\ op' = [p \in Procs |->
                        IF p = Worker(FreeSlot) THEN "task"
                        ELSE IF p = Periodic /\ pc[p] \in {"none", "done"} THEN "periodic"
                        ELSE op[p]]
       ELSE UNCHANGED <<h_loop, pc, op>>
    /\ EmitRuns
    /\ UNCHANGED <<handler, accepted, elapsed, calls, failures, tvars, loopRunning,
                   cancel_requested, sleep_left, local_buffer, shared,
                   raised, closed, quiet>>
    /\ UNCHANGED xvars

\* The event loop runs a task made by emit: flush.
TaskRun(k) ==
    /\ Async
    /\ pc[Worker(k)] = "created"
    /\ AsyncFlushEntry(Worker(k), "task")
    /\ UNCHANGED <<handler, accepted, emitted, failures, tvars, loopRunning, h_loop,
                   cancel_requested, shared, gvars>>
    /\ UNCHANGED xvars

\* await handler.flush() by the application.
AsyncFlush ==
    /\ Async
    /\ loopRunning
    /\ pc[Main] = "idle"
    /\ AsyncFlushEntry(Main, "flush")
    /\ quiet' = FALSE
    /\ streak' = IF Len(buffer) = 0 THEN Min(streak + 1, 2) ELSE streak
    /\ UNCHANGED <<handler, accepted, emitted, failures, tvars, loopRunning, h_loop,
                   cancel_requested, shared, raised, closed, emitSince,
                   streakFail>>
    /\ UNCHANGED xvars

\* The await of ingest_events is over for p, unless p is to be cancelled.
Resumes(p) ==
    /\ Async
    /\ pc[p] = "ingesting"
    /\ ~(p = Periodic /\ cancel_requested)

\* ingest_events returns (line 140); flush returns to what awaited it.
AsyncIngestOk(p) ==
    /\ Resumes(p)
    /\ local_buffer' = [local_buffer EXCEPT ![p] = <<>>]
    /\ sleep_left' = IF AfterFlush(op[p]) = "sleeping" THEN Interval ELSE sleep_left
    /\ accepted' = accepted \cup Range(local_buffer[p])
    /\ Arrives(p, AfterFlush(op[p]), FALSE)
    /\ UNCHANGED <<handler, buffer, elapsed, emitted, calls, failures, tvars,
                   loopRunning, h_loop, cancel_requested, shared,
                   raised, closed, quiet>>
    /\ UNCHANGED xvars

\* ingest_events raises (lines 141-146): the batch goes back to the buffer.
AsyncIngestFails(p) ==
    /\ Resumes(p)
    /\ failures < MaxFail
    /\ failures' = failures + 1
    /\ buffer' = Requeue(buffer, local_buffer[p])
    /\ local_buffer' = [local_buffer EXCEPT ![p] = <<>>]
    /\ sleep_left' = IF AfterFlush(op[p]) = "sleeping" THEN Interval ELSE sleep_left
    /\ Arrives(p, AfterFlush(op[p]), TRUE)
    /\ UNCHANGED <<handler, accepted, elapsed, emitted, calls, tvars, loopRunning, h_loop,
                   cancel_requested, shared, raised, closed, quiet>>
    /\ UNCHANGED xvars

\* _periodic_flush starts: line 86, await asyncio.sleep(self.interval).
PeriodicStart ==
    /\ Async
    /\ pc[Periodic] = "created"
    /\ ~cancel_requested
    /\ pc' = [pc EXCEPT ![Periodic] = "sleeping"]
    /\ sleep_left' = Interval
    /\ UNCHANGED <<hvars, tvars, loopRunning, h_loop, cancel_requested, op,
                   local_buffer, shared, gvars>>
    /\ UNCHANGED xvars

\* The sleep is over: line 87, await self.flush().
PeriodicWake ==
    /\ Async
    /\ pc[Periodic] = "sleeping"
    /\ sleep_left = 0
    /\ ~cancel_requested
    /\ AsyncFlushEntry(Periodic, "periodic")
    /\ UNCHANGED <<handler, accepted, emitted, failures, tvars, loopRunning, h_loop,
                   cancel_requested, shared, gvars>>
    /\ UNCHANGED xvars

\* CancelledError is thrown into the periodic task.  Not yet started, the
\* task ends at once.  In the sleep or in the await of ingest_events (whose
\* `except Exception` does not catch it, so the batch in flight is let go),
\* lines 88-90 run: await self.flush().
PeriodicCancelled ==
    /\ Async
    /\ cancel_requested
    /\ pc[Periodic] \in {"created", "sleeping", "ingesting"}
    /\ cancel_requested' = FALSE
    /\ IF pc[Periodic] = "created"
       THEN /\ pc' = [pc EXCEPT ![Periodic] = "done"]
            /\ op' = [op EXCEPT ![Periodic] = "none"]
            /\ UNCHANGED <<buffer, elapsed, calls, local_buffer, sleep_left>>
       ELSE AsyncFlushEntry(Periodic, "periodic_final")
    /\ UNCHANGED <<handler, accepted, emitted, failures, tvars, loopRunning, h_loop,
                   shared, gvars>>
    /\ UNCHANGED xvars

\* close, lines 164-172: cancel the periodic task and await it if it is not
\* done, else go on to the final flush.
Close ==
    /\ Async
    /\ loopRunning
    /\ pc[Main] = "idle"
    /\ ~closed
    /\ closed' = TRUE
    /\ quiet' = FALSE
    /\ streak' = 0
    /\ streakFail' = FALSE
    /\ IF pc[Periodic] \in {"none", "done"}
       THEN AsyncFlushEntry(Main, "close") /\ UNCHANGED cancel_requested
       ELSE /\ cancel_requested' = TRUE
            /\ pc' = [pc EXCEPT ![Main] = "close_await"]
            /\ op' = [op EXCEPT ![Main] = "close"]
            /\ UNCHANGED <<buffer, elapsed, calls, sleep_left, local_buffer>>
    /\ UNCHANGED <<handler, accepted, emitted, failures, tvars, loopRunning, h_loop,
                   shared, raised, emitSince>>
    /\ UNCHANGED xvars

\* The awaited periodic task has ended: line 172, the final flush.
CloseAwaited ==
    /\ Async
    /\ pc[Main] = "close_await"
    /\ pc[Periodic] = "done"
    /\ AsyncFlushEntry(Main, "close")
    /\ emitSince' = IF Len(buffer) = 0 THEN FALSE ELSE emitSince
    /\ UNCHANGED <<handler, accepted, emitted, failures, tvars, loopRunning, h_loop,
                   cancel_requested, shared, raised, closed, quiet,
                   streak, streakFail>>
    /\ UNCHANGED xvars

----------------------------------------------------------------------------
\* Time passes.
Tick ==
    /\ elapsed' = Min(elapsed + 1, Interval + 1)
    /\ timer_left' = Max(timer_left - 1, 0)
    /\ sleep_left' = Max(sleep_left - 1, 0)
    /\ quiet' = FALSE
    /\ UNCHANGED <<handler, accepted, buffer, emitted, calls, failures, timer,
                   loopRunning, h_loop, cancel_requested, pvars,
                   raised, closed, emitSince, streak, streakFail>>
    /\ UNCHANGED xvars

Next ==
    \/ Emit
    \/ EmitFlush
    \/ EmitRestart
    \/ Flush
    \/ TimerFire
    \/ \E p \in Procs : FlushLoad(p)
    \/ \E p \in Procs : FlushStore(p)
    \/ \E p \in Procs : IngestOk(p)
    \/ \E p \in Procs : IngestRaises(p)
    \/ Shutdown
    \/ ShutdownCancel
    \/ StartLoop
    \/ AsyncEmit
    \/ \E k \in 1..MaxEmit : TaskRun(k)
    \/ AsyncFlush
    \/ \E p \in Procs : AsyncIngestOk(p)
    \/ \E p \in Procs : AsyncIngestFails(p)
    \/ PeriodicStart
    \/ PeriodicWake
    \/ PeriodicCancelled
    \/ Close
    \/ CloseAwaited
    \/ Tick

Spec == Init /\ [][Next]_vars

\* The threads and tasks the handler has started keep running, and time
\* passes.  Nothing obliges the application to log, flush, close or start
\* an event loop.
Fairness ==
    /\ WF_vars(Tick)
    /\ WF_vars(EmitFlush)
    /\ WF_vars(EmitRestart)
    /\ WF_vars(ShutdownCancel)
    /\ WF_vars(TimerFire)
    /\ \A p \in Procs : WF_vars(FlushLoad(p))
    /\ \A p \in Procs : WF_vars(FlushStore(p))
    /\ \A p \in Procs : WF_vars(IngestOk(p) \/ IngestRaises(p))
    /\ \A p \in Procs : WF_vars(AsyncIngestOk(p) \/ AsyncIngestFails(p))
    /\ \A k \in 1..MaxEmit : WF_vars(TaskRun(k))
    /\ WF_vars(PeriodicStart)
    /\ WF_vars(PeriodicWake)
    /\ WF_vars(PeriodicCancelled)
    /\ WF_vars(CloseAwaited)

FairSpec == Spec /\ Fairness

----------------------------------------------------------------------------
\* Vocabulary of the properties.

\* Record r was in a batch passed to ingest_events.
Sent(r) == \E b \in BagToSet(calls) : r \in Range(b)

\* The batches passed to ingest_events that hold record r.
BatchesWith(r) == {b \in BagToSet(calls) : r \in Range(b)}

\* A list holds its records in emission order.
InOrder(s) == \A i, j \in 1..Len(s) : i < j => s[i] < s[j]

\* The application is in no operation of the handler and no Timer thread
\* or flush task made by emit is at work.
AtRest == pc[Main] = "idle" /\ \A k \in 1..MaxEmit : pc[Worker(k)] = "none"

\* The step is an emit.
EmitStep == emitted' = emitted + 1

\* The emit of this step finds the size or the age threshold reached.
Hit == Len(buffer') >= MAX_BATCH \/ elapsed > Interval

\* The emit of this step schedules a flush task.
TaskMade == \E k \in 1..MaxEmit : pc[Worker(k)] = "none" /\ pc'[Worker(k)] = "created"

\* In this step p swaps the buffer and calls ingest_events.
Swaps(p) == pc'[p] = "ingesting" /\ (pc[p] # "ingesting" \/ op'[p] # op[p])

\* p's ingest_events call is in progress before and after this step.
StaysInFlight(p) == pc[p] = "ingesting" /\ pc'[p] = "ingesting" /\ op'[p] = op[p]

\* In this step close() / the shutdown hook returns to the application.
CloseReturns ==
    /\ closed'
    /\ pc'[Main] = "idle"
    /\ \/ ~closed
       \/ pc[Main] # "idle" /\ op[Main] \in {"close", "shutdown"}

----------------------------------------------------------------------------
\* C1 (as amended).  emit triggers a flush exactly when, after the append,
\* len(buffer) >= MAX_BATCH or more than the interval has passed since the
\* last flush; AsyncAxiomHandler does so only if it has, or can get, an
\* event loop.  While no time passes and nothing else flushes, fewer than
\* MAX_BATCH records cause no ingest_events call, and exactly MAX_BATCH
\* records cause exactly one once the flush has run; none at all for an
\* AsyncAxiomHandler that had no event loop at the emit.
C1_EmitFlushesAtThreshold ==
    /\ [](quiet =>
            /\ (emitted < MAX_BATCH => calls = EmptyBag)
            /\ (emitted = MAX_BATCH /\ AtRest =>
                  BagCardinality(calls) = IF Async /\ h_loop = "None" THEN 0 ELSE 1))
    /\ [][EmitStep =>
            IF Sync THEN (pc'[Main] = "enter") <=> Hit
            ELSE TaskMade <=> (Hit /\ (h_loop # "None" \/ loopRunning))]_vars

C1_Witness ==
    quiet /\ emitted = MAX_BATCH /\ AtRest /\ BagCardinality(calls) = 1

\* C1 as stated: exactly MAX_BATCH records with no interval elapsing cause
\* exactly one ingest_events call, for both handlers.
C1_AsStated ==
    (quiet /\ emitted = MAX_BATCH /\ AtRest) => BagCardinality(calls) = 1

C3_PeriodicTriggerSends ==
    (emitted = 1 /\ ~closed /\ (Async => loopRunning)) ~> (Sent(1) \/ emitted > 1)

\* C3, for the handlers that have their periodic trigger: AxiomHandler, and
\* AsyncAxiomHandler once self._loop is set.
C3_WithLoop ==
    (emitted = 1 /\ ~closed /\ (Async => h_loop # "None")) ~> (Sent(1) \/ emitted > 1)

\* C4.  No ingest failure reaches the caller of emit, flush or the
\* shutdown hook.
C4_NeverRaises == ~raised

\* C5.  The batches of the ingest_events calls of AsyncAxiomHandler that are
\* in flight at the same time have no record in common, and none of them
\* is still in the buffer.
C5_NoBatchSentTwice ==
    Async =>
        \A p \in Procs : pc[p] = "ingesting" =>
            /\ Range(local_buffer[p]) \cap Range(buffer) = {}
            /\ \A q \in Procs \ {p} : pc[q] = "ingesting" =>
                   Range(local_buffer[p]) \cap Range(local_buffer[q]) = {}

C5_Witness ==
    /\ Async
    /\ Cardinality({p \in Procs : pc[p] = "ingesting" /\ local_buffer[p] # <<>>}) >= 2

\* C6.  Every record emitted to AxiomHandler is either still in the buffer
\* or was passed to ingest_events in exactly one batch, once.
C6_ExactlyOneBatch ==
    Sync =>
        \A r \in 1..emitted :
            IF r \in Range(buffer) THEN BatchesWith(r) = {}
            ELSE /\ Cardinality(BatchesWith(r)) = 1
                 /\ \A b \in BatchesWith(r) : CopiesIn(b, calls) = 1

C8_RequeuedAtFront ==
    [][\A p \in Procs :
          (Async /\ pc[p] = "ingesting" /\ pc'[p] # "ingesting"
                 /\ failures' = failures + 1)
             => buffer' = local_buffer[p] \o buffer]_vars

\* C9.  The buffer and every batch passed to ingest_events hold their
\* records in emission order.
C9_EmissionOrder ==
    /\ InOrder(buffer)
    /\ \A b \in BagToSet(calls) : InOrder(b)

----------------------------------------------------------------------------
\* close() / the shutdown hook was invoked and has returned (or raised) to
\* the application.
ClosedDone == closed /\ op[Main] \notin {"close", "shutdown"}

\* In this step a Timer is armed.
TimerArmed == timer' = "armed" /\ timer # "armed"

\* In this step the periodic task is created.
PeriodicMade == pc[Periodic] \in {"none", "done"} /\ pc'[Periodic] = "created"

\* C11.  After close() / the shutdown hook has completed, an emit causes no
\* flush: it does not call flush, arms no Timer and creates no flush task
\* and no periodic task, so that no ingest_events call stems from it.
C11_ClosedIsTerminal ==
    [][ClosedDone =>
          /\ EmitStep => pc'[Main] # "enter"
          /\ ~TimerArmed
          /\ ~TaskMade
          /\ ~PeriodicMade]_vars

----------------------------------------------------------------------------
\* Client.before_shutdown and Client.shutdown_hook (client.py).  A function
\* registered for shutdown is named by the client it was registered
\* through.  The hook runs on one thread at a time (atexit, or a direct
\* call), one statement per step.

\* Functions registered in one behaviour.
MaxFuncs == 3

\* The handler, the requests and the conversions are not involved.
HandlerIdle == UNCHANGED <<hvars, tvars, avars, pvars, gvars, rvars, uvars, dvars, evars>>

\* `for func in self.before_shutdown_funcs` is exhausted.
LoopDone_early(i, funcs) == i >= Len(funcs)
LoopDone(i, funcs) == i > Len(funcs)

\* The sessions of client c.
SessionsOf(c) == {c} \X SessionNames

\* client.before_shutdown(func), line 342.
BeforeShutdown(c) ==
    /\ hook = NoClient
    /\ Len(before_shutdown_funcs) < MaxFuncs
    /\ before_shutdown_funcs' = Append(before_shutdown_funcs, c)
    /\ UNCHANGED <<is_closed, open_sessions, hook, hook_i, hook_pc, invoked>>
    /\ HandlerIdle

\* client.shutdown_hook() is entered, line 345.
ShutdownHook(c) ==
    /\ hook = NoClient
    /\ hook' = c
    /\ hook_i' = 1
    /\ hook_pc' = "loop"
    /\ invoked' = <<>>
    /\ UNCHANGED <<before_shutdown_funcs, is_closed, open_sessions>>
    /\ HandlerIdle

\* Line 346, func(), which returns.
HookCall ==
    /\ hook_pc = "loop"
    /\ ~LoopDone(hook_i, before_shutdown_funcs)
    /\ invoked' = Append(invoked, before_shutdown_funcs[hook_i])
    /\ hook_i' = hook_i + 1
    /\ UNCHANGED <<before_shutdown_funcs, is_closed, open_sessions, hook, hook_pc>>
    /\ HandlerIdle

\* Line 346, func(), which raises: the exception leaves shutdown_hook.
HookCallRaises ==
    /\ hook_pc = "loop"
    /\ ~LoopDone(hook_i, before_shutdown_funcs)
    /\ invoked' = Append(invoked, before_shutdown_funcs[hook_i])
    /\ hook' = NoClient
    /\ hook_i' = 0
    /\ hook_pc' = "none"
    /\ UNCHANGED <<before_shutdown_funcs, is_closed, open_sessions>>
    /\ HandlerIdle

\* Lines 347-348: self.session.close(); self.edge_session.close().
HookCloseSessions ==
    /\ hook_pc = "loop"
    /\ LoopDone(hook_i, before_shutdown_funcs)
    /\ open_sessions' = open_sessions \ SessionsOf(hook)
    /\ hook_pc' = "closed"
    /\ UNCHANGED <<before_shutdown_funcs, is_closed, hook, hook_i, invoked>>
    /\ HandlerIdle

\* Line 349: self.is_closed = True, and the hook returns.
HookReturn ==
    /\ hook_pc = "closed"
    /\ is_closed' = [is_closed EXCEPT ![hook] = TRUE]
    /\ hook' = NoClient
    /\ hook_i' = 0
    /\ hook_pc' = "none"
    /\ UNCHANGED <<before_shutdown_funcs, open_sessions, invoked>>
    /\ HandlerIdle

\* The clients of a process that logs through AxiomHandler.
ClientSpecInit == Init /\ Sync

ClientNext ==
    \/ \E c \in Clients : BeforeShutdown(c)
    \/ \E c \in Clients : ShutdownHook(c)
    \/ HookCall
    \/ HookCallRaises
    \/ HookCloseSessions
    \/ HookReturn

ClientSpec == ClientSpecInit /\ [][ClientNext]_vars

\* In this step shutdown_hook of client c returns (it does not raise).
HookReturns(c) == hook = c /\ hook' = NoClient /\ hook_pc = "closed"

\* C12.  shutdown_hook closes the sessions of its client only after it has
\* invoked every function registered through before_shutdown, in the order
\* of registration; is_closed of a client is false until its shutdown_hook
\* returns and true from then on, the sessions being closed by then.
C12_HookThenClose ==
    /\ [](\A c \in Clients : is_closed[c] => open_sessions \cap SessionsOf(c) = {})
    /\ [][/\ open_sessions' # open_sessions =>
                /\ invoked = before_shutdown_funcs
                /\ open_sessions' = open_sessions \ SessionsOf(hook)
          /\ \A c \in Clients :
                /\ HookReturns(c) => is_closed'[c]
                /\ is_closed'[c] # is_closed[c] => (~is_closed[c] /\ HookReturns(c))]_vars

C12_Witness ==
    /\ is_closed[1]
    /\ ~is_closed[2]
    /\ hook = NoClient
    /\ Len(invoked) = MaxFuncs
    /\ invoked = before_shutdown_funcs
    /\ \A c \in Clients : \E i \in 1..Len(invoked) : invoked[i] = c

----------------------------------------------------------------------------
\* Durations (util.py): _convert_string_to_timedelta, the type hook that
\* decodes a timedelta field, and handle_json_serialization, the `default`
\* of ujson.dumps that encodes one.  A text is the sequence of its
\* characters; a timedelta is its days and seconds, normalized as Python
\* does.

DigitChars == <<"0", "1", "2", "3", "4", "5", "6", "7", "8", "9">>
Digits == {DigitChars[i] : i \in 1..10}
Letters ==
    {"a", "b", "c", "d", "e", "f", "g", "h", "i", "j", "k", "l", "m",
     "n", "o", "p", "q", "r", "s", "t", "u", "v", "w", "x", "y", "z"}
Units == {"s", "m", "h", "d"}

\* int(c) of a digit, str(n) of a natural number.
DigitValue(c) == CHOOSE k \in 0..9 : DigitChars[k + 1] = c
RECURSIVE Decimal(_)
Decimal(n) ==
    IF n < 10 THEN <<DigitChars[n + 1]>>
    ELSE Decimal(n \div 10) \o <<DigitChars[(n % 10) + 1]>>

\* timedelta(days=dd, seconds=ss)
SecondsPerDay == 86400
TimeDelta(dd, ss) ==
    [kind |-> "timedelta", days |-> dd + (ss \div SecondsPerDay),
     seconds |-> ss % SecondsPerDay]
ConvertRaises == [kind |-> "raised", days |-> 0, seconds |-> 0]

\* re.search("^([0-9]?)([a-z])$", val) finds a match.
Matches(val) ==
    \/ Len(val) = 1 /\ val[1] \in Letters
    \/ Len(val) = 2 /\ val[1] \in Digits /\ val[2] \in Letters

\* _convert_string_to_timedelta(val), util.py:21-44; int("") raises.
ConvertStringToTimedelta(val) ==
    IF val = <<"0">> THEN TimeDelta(0, 0)
    ELSE IF ~Matches(val) THEN ConvertRaises
    ELSE IF Len(val) = 1 THEN ConvertRaises
    ELSE LET v == DigitValue(val[1])
             unit == val[2] IN
         CASE unit = "s" -> TimeDelta(0, v)
           [] unit = "m" -> TimeDelta(0, 60 * v)
           [] unit = "h" -> TimeDelta(0, 3600 * v)
           [] unit = "d" -> TimeDelta(v, 0)
           [] OTHER -> ConvertRaises

\* handle_json_serialization(obj) for a timedelta, util.py:64-65:
\* str(obj.seconds) + "s".
HandleJsonSerialization(td) == Decimal(td.seconds) \o <<"s">>

----------------------------------------------------------------------------
\* Requests of Client (client.py) and AsyncClient (client_async.py): how
\* ingest, ingest_events, query and query_legacy check their arguments and
\* choose the URL they post to.  A string that the code inspects is a
\* sequence of its parts: a token of its characters, a URL path of "/" and
\* the segments between.  A URL is kept as urlparse splits it: base is
\* <<scheme, netloc>>, path the rest.

SyncClient == client_class = "Client"
AsyncClient == client_class = "AsyncClient"

\* AXIOM_URL, client.py:31.
AXIOM_URL == [base |-> <<"https", "api.axiom.co">>, path |-> <<>>]

\* s.startswith(prefix)
StartsWith(s, prefix) == Len(s) >= Len(prefix) /\ SubSeq(s, 1, Len(prefix)) = prefix

\* util.is_personal_token
is_personal_token_xa(t) == StartsWith(t, <<"x", "a">>)
is_personal_token(t) == StartsWith(t, <<"x", "a", "p", "t", "-">>)

\* s.rstrip("/") on a path
RECURSIVE RStrip(_)
RStrip(s) == IF s # <<>> /\ s[Len(s)] = "/" THEN RStrip(SubSeq(s, 1, Len(s) - 1)) ELSE s

\* urlparse(u.rstrip("/"))
Parsed(u) == [u EXCEPT !.path = RStrip(@)]

\* The paths the code formats.
EdgeIngestPath(d) == <<"/", "v1", "/", "ingest", "/", d>>
LegacyIngestPath(d) == <<"/", "v1", "/", "datasets", "/", d, "/", "ingest">>
EdgeQueryPath == <<"/", "v1", "/", "query", "/", "_apl">>
LegacyQueryPath == <<"/", "v1", "/", "datasets", "/", "_apl">>
QueryLegacyPath(d) == <<"/", "v1", "/", "datasets", "/", d, "/", "query">>

\* Client._get_edge_base_url, client.py:275-297.
EdgeBaseUrl ==
    IF edge_url # NoUrl THEN Parsed(edge_url).base
    ELSE IF region # NoRegion THEN <<"https", region>>
    ELSE IF url # NoUrl THEN Parsed(url).base
    ELSE AXIOM_URL.base

\* Client._build_ingest_path, client.py:299-333.
BuildIngestPath(d) ==
    IF edge_url # NoUrl
    THEN IF Parsed(edge_url).path = <<>> \/ Parsed(edge_url).path = <<"/">>
         THEN EdgeIngestPath(d)
         ELSE Parsed(edge_url).path
    ELSE IF region # NoRegion THEN EdgeIngestPath(d)
    ELSE IF url # NoUrl
    THEN IF Parsed(url).path = <<>> \/ Parsed(url).path = <<"/">>
         THEN LegacyIngestPath(d)
         ELSE Parsed(url).path
    ELSE LegacyIngestPath(d)

\* Client._build_query_path, client.py:335-338.
BuildQueryPath == LegacyQueryPath

\* A request of Client through self.edge_session, a BaseUrlSession on the
\* edge base URL.
OnEdgeSession(path) == [base |-> EdgeBaseUrl, path |-> path]

\* AsyncClient._get_edge_ingest_url / _get_edge_query_url,
\* client_async.py:134-170; NoUrl is None.
GetEdgeUrl(path) ==
    IF edge_url = NoUrl THEN NoUrl
    ELSE IF Parsed(edge_url).path = <<>> \/ Parsed(edge_url).path = <<"/">>
    THEN [base |-> Parsed(edge_url).base, path |-> path]
    ELSE Parsed(edge_url)

\* A request of AsyncClient with a relative path: httpx puts it after
\* base_url, which is url.rstrip("/") (client_async.py:100-101).
OnBaseUrl(path) ==
    LET b == IF url = NoUrl THEN AXIOM_URL ELSE url IN
    [base |-> b.base, path |-> RStrip(b.path) \o path]

\* query_legacy's test of opts.saveAsKind; "None" is saveAsKind unset.
WrongKind_unset(kind) == kind = "None"
WrongKind(kind) == kind = "None" \/ kind = "apl"

Raised(kind) == [kind |-> kind, status |-> 0, message |-> <<>>]

\* The arguments the constructors and the operations are given.
Tokens ==
    { <<"x", "a", "p", "t", "-", "1">>, <<"x", "a", "a", "t", "-", "1">>,
      <<"x", "a", "p", "t">>, <<>> }
PathsGiven == { <<>>, <<"/">>, <<"/", "custom">>, <<"/", "custom", "/">> }
EdgeUrls == {[base |-> <<"https", "edge.example.com">>, path |-> q] : q \in PathsGiven}
Urls == {[base |-> <<"http", "localhost">>, path |-> q] : q \in { <<>>, <<"/", "custom">> }}
Regions == {"eu.edge.axiom.co"}
Datasets == {"d1", "d2"}
Kinds == {"None", "apl", "analytics", "stream"}

\* The other parts of a request stay as they are.
NotRequest == UNCHANGED <<hvars, tvars, avars, pvars, gvars, kvars, uvars, evars>>
RequestOnly == NotRequest /\ UNCHANGED dvars

\* The operation raises e / goes on to post to u.
Raises(e) ==
    /\ outcome' = e
    /\ r_pc' = "done"
    /\ UNCHANGED target
PostsTo(u) ==
    /\ target' = u
    /\ r_pc' = "send"
    /\ UNCHANGED outcome

\* AsyncClient: the edge check of ingest (client_async.py:198-207) and of
\* query (355-364); legacy is the relative path used without an edge URL.
AsyncRoute(edge, legacy) ==
    IF edge # NoUrl
    THEN IF is_personal_token(token)
         THEN Raises(Raised("PersonalTokenNotSupportedForEdgeError"))
         ELSE PostsTo(edge)
    ELSE PostsTo(OnBaseUrl(legacy))

\* ingest(dataset, ...), up to the transport call; as itself or as called
\* by ingest_events (client.py:351-397, client_async.py:172-263).
Ingest(d, name) ==
    /\ r_pc = "idle"
    /\ call' = [name |-> name, dataset |-> d, kind |-> ""]
    /\ IF SyncClient
       THEN PostsTo(OnEdgeSession(BuildIngestPath(d)))
       ELSE AsyncRoute(GetEdgeUrl(EdgeIngestPath(d)), LegacyIngestPath(d))
    /\ UNCHANGED <<cfgvars, transport, received, attempt, slept, response>>
    /\ RequestOnly

\* query(apl, opts), up to the transport call (client.py:437-461,
\* client_async.py:328-383).
Query ==
    /\ r_pc = "idle"
    /\ call' = [name |-> "query", dataset |-> "", kind |-> ""]
    /\ IF SyncClient
       THEN PostsTo(OnEdgeSession(BuildQueryPath))
       ELSE AsyncRoute(GetEdgeUrl(EdgeQueryPath), LegacyQueryPath)
    /\ UNCHANGED <<cfgvars, transport, received, attempt, slept, response>>
    /\ RequestOnly

\* query_legacy(id, query, opts), up to the transport call
\* (client.py:406-428, client_async.py:271-308).
QueryLegacy(d, kind) ==
    /\ r_pc = "idle"
    /\ call' = [name |-> "query_legacy", dataset |-> d, kind |-> kind]
    /\ IF WrongKind(kind)
       THEN Raises(Raised("WrongQueryKindException"))
       ELSE IF SyncClient
       THEN PostsTo(OnEdgeSession(QueryLegacyPath(d)))
       ELSE PostsTo(OnBaseUrl(QueryLegacyPath(d)))
    /\ UNCHANGED <<cfgvars, transport, received, attempt, slept, response>>
    /\ RequestOnly

\* The transport call: edge_session.post / self.client.post.
Send ==
    /\ r_pc = "send"
    /\ transport' = Append(transport, target)
    /\ r_pc' = "awaiting"
    /\ UNCHANGED <<cfgvars, call, target, received, attempt, slept, response, outcome>>
    /\ RequestOnly

\* A client constructed with any of the arguments; Client takes a region,
\* AsyncClient takes none and uses AXIOM_URL when url is None.
AnyConfig ==
    /\ client_class \in {"Client", "AsyncClient"}
    /\ token \in Tokens
    /\ url \in Urls \cup {NoUrl}
    /\ region \in IF SyncClient THEN Regions \cup {NoRegion} ELSE {NoRegion}
    /\ edge_url \in EdgeUrls \cup {NoUrl}

RouteInit ==
    /\ HandlerInit
    /\ Sync
    /\ ClientInit
    /\ AnyConfig
    /\ NothingCalled
    /\ UtilIdle
    /\ ExtraIdle

RouteNext ==
    \/ \E d \in Datasets : Ingest(d, "ingest")
    \/ \E d \in Datasets : Ingest(d, "ingest_events")
    \/ Query
    \/ \E d \in Datasets, kind \in Kinds : QueryLegacy(d, kind)
    \/ Send

RouteSpec == RouteInit /\ [][RouteNext]_vars

----------------------------------------------------------------------------
\* Responses: the retry loop of AsyncClient (_http_client.py) and the error
\* check of both clients (client.py:117-145, _error_handling.py).  For
\* Client one transport call is one edge_session.post; the response hook of
\* the session runs raise_response_error on its response.  A message is a
\* sequence of the pieces it is formatted from.

\* _http_client.py:12-14.
RETRY_MAX_ATTEMPTS == 3
RETRY_BACKOFF_FACTOR == 2
RETRY_STATUS_CODES == {500, 502, 503, 504}

\* The statuses a server answers with, and res.reason / str(status) of each.
Statuses == {200, 204, 400} \cup RETRY_STATUS_CODES
Reason(st) ==
    CASE st = 200 -> <<"OK">>
      [] st = 204 -> <<"No Content">>
      [] st = 400 -> <<"Bad Request">>
      [] st = 500 -> <<"Internal Server Error">>
      [] st = 502 -> <<"Bad Gateway">>
      [] st = 503 -> <<"Service Unavailable">>
      [] st = 504 -> <<"Gateway Timeout">>
StatusText(st) ==
    CASE st = 200 -> "200" [] st = 204 -> "204" [] st = 400 -> "400" [] st = 500 -> "500"
      [] st = 502 -> "502" [] st = 503 -> "503" [] st = 504 -> "504"

\* JSON values: a string, null, a number.
Str(text) == [t |-> "str", v |-> <<text>>]
Null == [t |-> "null", v |-> <<>>]
Num == [t |-> "num", v |-> <<"7">>]
None == <<"None">>

\* The JSON objects a response body may be, as far as their `message` and
\* `error` members go: each present or not, a string or not.
MessageGiven == {Str("Bad request"), Num}
ErrorGiven == {Str("Invalid payload"), Null}
JsonObjects ==
    {[f \in {} |-> Null]}
    \cup {[f \in {"message"} |-> m] : m \in MessageGiven}
    \cup {[f \in {"error"} |-> e] : e \in ErrorGiven}
    \cup {[f \in {"message", "error"} |-> IF f = "message" THEN m ELSE e] :
             m \in MessageGiven, e \in ErrorGiven}

\* A response: its status, whether its body is JSON, and the object if so.
Responses(st) ==
    {[status |-> st, json |-> TRUE, body |-> b] : b \in JsonObjects}
    \cup {[status |-> st, json |-> FALSE, body |-> <<>>]}

\* from_dict(AxiomError.Response, body), client.py:123-126: message: str is
\* required, error: Optional[str] may be missing or null; anything else
\* makes dacite raise.
FromDictFails(body) ==
    \/ "message" \notin DOMAIN body
    \/ body["message"].t # "str"
    \/ "error" \in DOMAIN body /\ body["error"].t \notin {"str", "null"}
FromDict(body) ==
    [message |-> body["message"].v,
     error |-> IF "error" \in DOMAIN body /\ body["error"].t = "str"
               THEN body["error"].v ELSE None]

\* AxiomError.__init__, client.py:128-133.
ErrorMessage(res) == IF res.error # None THEN res.error ELSE res.message
AxiomError(st, res) == [kind |-> "AxiomError", status |-> st, message |-> ErrorMessage(res)]

\* The generic AxiomError.Response of raise_response_error
\* (client.py:142) and of check_response_error (_error_handling.py:27-29).
GenericSync(res) == [message |-> Reason(res.status), error |-> None]
GenericAsync(st) == [message |-> <<"HTTP", StatusText(st), "error">>, error |-> None]

\* The operation returns its result / fails to decode the body.
Returned(st) == [kind |-> "returned", status |-> st, message |-> <<>>]
JSONDecodeError == [kind |-> "JSONDecodeError", status |-> 0, message |-> <<>>]

\* raise_response_error(res), then res.json() by the operation
\* (client.py:136-145, 376).
SyncOutcome(res) ==
    IF res.status >= 400
    THEN AxiomError(res.status,
                    IF ~res.json \/ FromDictFails(res.body) THEN GenericSync(res)
                    ELSE FromDict(res.body))
    ELSE IF res.json THEN Returned(res.status) ELSE JSONDecodeError

\* check_response_error(status_code, json_body), _error_handling.py:8-31.
CheckResponseError(st, body) ==
    IF st >= 400
    THEN AxiomError(st, IF FromDictFails(body) THEN GenericAsync(st) ELSE FromDict(body))
    ELSE Returned(st)

\* check_response_error(response.status_code, response.json()) as the
\* async operations call it (client_async.py:225): response.json() is
\* evaluated first.
AsyncOutcome(res) ==
    IF ~res.json THEN JSONDecodeError ELSE CheckResponseError(res.status, res.body)

\* AsyncDatasetsClient.get(id), up to the transport call
\* (datasets_async.py:30-43).
DatasetsPath(d) == <<"/", "v1", "/", "datasets", "/", d>>
DatasetsGet(d) ==
    /\ r_pc = "idle"
    /\ AsyncClient
    /\ call' = [name |-> "datasets.get", dataset |-> d, kind |-> ""]
    /\ PostsTo(OnBaseUrl(DatasetsPath(d)))
    /\ UNCHANGED <<cfgvars, transport, received, attempt, slept, response>>
    /\ RequestOnly

\* DatasetsClient.delete (datasets.py:137-144) and
\* AsyncDatasetsClient.delete (datasets_async.py:118-129), up to the
\* transport call.
DatasetsDelete(d) ==
    /\ r_pc = "idle"
    /\ call' = [name |-> "datasets.delete", dataset |-> d, kind |-> ""]
    /\ PostsTo(OnBaseUrl(DatasetsPath(d)))
    /\ UNCHANGED <<cfgvars, transport, received, attempt, slept, response>>
    /\ RequestOnly

\* The durations datasets.trim is given.
TrimDurations ==
    {TimeDelta(0, 1), TimeDelta(0, 90), TimeDelta(1, 0), TimeDelta(7, 0), TimeDelta(1, 1)}

\* timedelta.total_seconds() of a whole number of seconds.
TotalSeconds(td) == td.days * SecondsPerDay + td.seconds

\* TrimRequest(f"{maxDuration.seconds}s"), datasets.py:157 and
\* datasets_async.py:145.
TrimRequest_total(td) == Decimal(TotalSeconds(td)) \o <<"s">>
TrimRequest(td) == Decimal(td.seconds) \o <<"s">>

\* DatasetsClient.trim (datasets.py:146-158) and AsyncDatasetsClient.trim
\* (datasets_async.py:131-148), up to the transport call.
DatasetsTrimPath(d) == DatasetsPath(d) \o <<"/", "trim">>
DatasetsTrim(d, td) ==
    /\ r_pc = "idle"
    /\ call' = [name |-> "datasets.trim", dataset |-> d, kind |-> ""]
    /\ maxDuration' = td
    /\ payload' = TrimRequest(td)
    /\ PostsTo(OnBaseUrl(DatasetsTrimPath(d)))
    /\ UNCHANGED <<cfgvars, transport, received, attempt, slept, response>>
    /\ NotRequest

\* DatasetsClient.delete and trim do not read the body of the response:
\* only the session's response hook, raise_response_error, looks at it
\* (client.py:233-235).
ReadsBody == call.name \notin {"datasets.delete", "datasets.trim"}
SyncStatusOnly(res) ==
    IF res.status >= 400 THEN SyncOutcome(res) ELSE Returned(res.status)

\* The operation makes its transport call through async_retry
\* (client_async.py:219, 298, 372).
Retries == AsyncClient /\ call.name \in {"ingest", "ingest_events", "query", "query_legacy"}

\* async_retry: `attempt == max_attempts - 1`, and the delay slept.
LastAttempt_late(a) == a = RETRY_MAX_ATTEMPTS
LastAttempt(a) == a = RETRY_MAX_ATTEMPTS - 1
Backoff(a) == RETRY_BACKOFF_FACTOR ^ a

\* What a transport call that raised (httpx.RequestError, or the exception
\* requests raises) is recorded as in `received`.
NoStatus == 0

\* The transport call returns a response.  Under async_retry
\* (_http_client.py:64-76) a status of the retry list, unless on the last
\* attempt, leads to the sleep; any other response goes to the error check.
Responds(res) ==
    /\ r_pc = "awaiting"
    /\ received' = Append(received, res.status)
    /\ IF Retries /\ res.status \in RETRY_STATUS_CODES /\ ~LastAttempt(attempt)
       THEN r_pc' = "sleep" /\ UNCHANGED response
       ELSE r_pc' = "check" /\ response' = res
    /\ UNCHANGED <<cfgvars, call, target, transport, attempt, slept, outcome>>
    /\ RequestOnly

\* The transport call raises.  Under async_retry (_http_client.py:78-86) it
\* is raised on only on the last attempt; without, it leaves the operation.
TransportFails ==
    /\ r_pc = "awaiting"
    /\ received' = Append(received, NoStatus)
    /\ IF Retries /\ ~LastAttempt(attempt)
       THEN r_pc' = "sleep" /\ UNCHANGED outcome
       ELSE r_pc' = "done" /\ outcome' = Raised("RequestError")
    /\ UNCHANGED <<cfgvars, call, target, transport, attempt, slept, response>>
    /\ RequestOnly

\* async_retry: await asyncio.sleep(backoff_factor**attempt), and the next
\* round of the loop.
RetrySleep ==
    /\ r_pc = "sleep"
    /\ slept' = Append(slept, Backoff(attempt))
    /\ attempt' = attempt + 1
    /\ r_pc' = "send"
    /\ UNCHANGED <<cfgvars, call, target, transport, received, response, outcome>>
    /\ RequestOnly

\* The error check on the response, and the operation's return.
Check ==
    /\ r_pc = "check"
    /\ outcome' = IF AsyncClient THEN AsyncOutcome(response)
                   ELSE IF ReadsBody THEN SyncOutcome(response)
                   ELSE SyncStatusOnly(response)
    /\ r_pc' = "done"
    /\ UNCHANGED <<cfgvars, call, target, transport, received, attempt, slept, response>>
    /\ RequestOnly

\* A client of either class constructed with an API token only.
RequestInit ==
    /\ HandlerInit
    /\ Sync
    /\ ClientInit
    /\ client_class \in {"Client", "AsyncClient"}
    /\ DefaultConfig
    /\ NothingCalled
    /\ UtilIdle
    /\ ExtraIdle

RequestNext ==
    \/ \E d \in Datasets : Ingest(d, "ingest")
    \/ \E d \in Datasets : Ingest(d, "ingest_events")
    \/ Query
    \/ \E d \in Datasets, kind \in Kinds : QueryLegacy(d, kind)
    \/ \E d \in Datasets : DatasetsGet(d)
    \/ \E d \in Datasets : DatasetsDelete(d)
    \/ \E d \in Datasets, td \in TrimDurations : DatasetsTrim(d, td)
    \/ Send
    \/ \E st \in Statuses : \E res \in Responses(st) : Responds(res)
    \/ TransportFails
    \/ RetrySleep
    \/ Check

RequestSpec == RequestInit /\ [][RequestNext]_vars

----------------------------------------------------------------------------
\* Vocabulary of the request properties.

\* The operation has chosen the URL it posts to.
Routed == r_pc \in {"send", "awaiting"}

\* The tokens that begin with xapt-.
PersonalTokens ==
    {t \in Tokens : Len(t) >= 5 /\ <<t[1], t[2], t[3], t[4], t[5]>> = <<"x", "a", "p", "t", "-">>}

\* The path of the edge URL is empty or "/".
BareEdge == edge_url # NoUrl /\ edge_url.path \in { <<>>, <<"/">> }

\* The path of the edge URL as given, and without its trailing "/".
EdgePathAsIs == {edge_url.path, RStrip(edge_url.path)}

\* C13.  query_legacy of Client and of AsyncClient, called with saveAsKind
\* unset or equal to QueryKind.APL, raises WrongQueryKindException and
\* makes no transport call.
C13_WrongKindBeforeTransport ==
    (call.name = "query_legacy" /\ call.kind \in {"None", "apl"}) =>
        /\ outcome.kind = "WrongQueryKindException"
        /\ r_pc = "done"
        /\ transport = <<>>

C13_Witness ==
    /\ AsyncClient
    /\ call.name = "query_legacy"
    /\ call.kind = "apl"
    /\ outcome.kind = "WrongQueryKindException"
    /\ transport = <<>>

\* C18.  ingest, ingest_events and query of an AsyncClient that has an
\* edge_url and a token beginning with xapt- raise
\* PersonalTokenNotSupportedForEdgeError and make no transport call; with
\* an edge_url and another token, or with no edge_url, no operation raises
\* that error.
C18_PersonalTokenOnEdge ==
    /\ (/\ AsyncClient
        /\ call.name \in {"ingest", "ingest_events", "query"}
        /\ edge_url # NoUrl
        /\ token \in PersonalTokens) =>
            /\ outcome.kind = "PersonalTokenNotSupportedForEdgeError"
            /\ r_pc = "done"
            /\ transport = <<>>
    /\ (edge_url = NoUrl \/ token \notin PersonalTokens) =>
            outcome.kind # "PersonalTokenNotSupportedForEdgeError"

C18_Witness ==
    /\ call.name = "ingest_events"
    /\ edge_url # NoUrl
    /\ token \in PersonalTokens
    /\ outcome.kind = "PersonalTokenNotSupportedForEdgeError"
    /\ transport = <<>>

\* C19.  With an edge_url whose path is empty or "/", Client and
\* AsyncClient post an ingest of dataset D to {edge_url}/v1/ingest/D and an
\* APL query to {edge_url}/v1/query/_apl; with an edge_url that has a path
\* of its own they post to that path; with no edge_url and no region (and
\* a url that has no path of its own) they post an ingest to
\* /v1/datasets/D/ingest and a query to /v1/datasets/_apl.
C19_EdgeAndLegacyTargets ==
    (Routed /\ call.name \in {"ingest", "ingest_events", "query"}) =>
        LET isQuery == call.name = "query" IN
        IF BareEdge
        THEN /\ target.base = edge_url.base
             /\ target.path = IF isQuery THEN EdgeQueryPath ELSE EdgeIngestPath(call.dataset)
        ELSE IF edge_url # NoUrl
        THEN /\ target.base = edge_url.base
             /\ target.path \in EdgePathAsIs
        ELSE (region = NoRegion /\ (url = NoUrl \/ url.path = <<>>)) =>
                target.path = IF isQuery THEN LegacyQueryPath
                              ELSE LegacyIngestPath(call.dataset)

\* C19, the part that holds: the ingest targets of both clients and the
\* query targets of AsyncClient; Client posts every APL query to
\* /v1/datasets/_apl.
C19_IngestAndAsyncQuery ==
    (Routed /\ call.name \in {"ingest", "ingest_events", "query"}) =>
        LET isQuery == call.name = "query" IN
        IF isQuery /\ SyncClient THEN target.path = LegacyQueryPath
        ELSE IF BareEdge
        THEN /\ target.base = edge_url.base
             /\ target.path = IF isQuery THEN EdgeQueryPath ELSE EdgeIngestPath(call.dataset)
        ELSE IF edge_url # NoUrl
        THEN /\ target.base = edge_url.base
             /\ target.path \in EdgePathAsIs
        ELSE (region = NoRegion /\ (url = NoUrl \/ url.path = <<>>)) =>
                target.path = IF isQuery THEN LegacyQueryPath
                              ELSE LegacyIngestPath(call.dataset)

----------------------------------------------------------------------------
\* Vocabulary of the response properties.

\* The operation has ended on a response with an error status.
EndedOnError == r_pc = "done" /\ response # NoResponse /\ response.status >= 400

\* The members of the response's JSON body that are strings.
StringMembers == {f \in DOMAIN response.body : response.body[f].t = "str"}

\* The text of member f of the response's JSON body.
Member(f) == response.body[f].v

\* C14.  An operation that ends on a response with status >= 400 whose JSON
\* body has a `message` and / or an `error` member, strings, raises
\* AxiomError with the status of the response and as message the `error`
\* member if there is one, else the `message` member.
C14_ErrorFieldPreferred ==
    (/\ EndedOnError
     /\ response.json
     /\ StringMembers # {}
     /\ StringMembers = DOMAIN response.body) =>
        /\ outcome.kind = "AxiomError"
        /\ outcome.status = response.status
        /\ outcome.message = IF "error" \in StringMembers THEN Member("error")
                             ELSE Member("message")

\* C14, the part that holds: the same for the bodies that have a `message`
\* string (the `error` member a string, null or missing).
C14_WithMessage ==
    (/\ EndedOnError
     /\ response.json
     /\ "message" \in StringMembers) =>
        /\ outcome.kind = "AxiomError"
        /\ outcome.status = response.status
        /\ outcome.message = IF "error" \in StringMembers THEN Member("error")
                             ELSE Member("message")

\* C15.  An operation of either client that ends on a response with an
\* error status whose body is not JSON, or is JSON with neither member,
\* raises AxiomError with the status of the response and its reason phrase
\* as message.
C15_GenericError ==
    (EndedOnError /\ (~response.json \/ DOMAIN response.body = {})) =>
        /\ outcome.kind = "AxiomError"
        /\ outcome.status = response.status
        /\ outcome.message = Reason(response.status)

\* C15, the part that holds: Client.
C15_GenericErrorSync ==
    (SyncClient /\ EndedOnError /\ (~response.json \/ FromDictFails(response.body))) =>
        /\ outcome.kind = "AxiomError"
        /\ outcome.status = response.status
        /\ outcome.message = Reason(response.status)

\* C16.  ingest, ingest_events, query and query_legacy of AsyncClient make
\* at most RETRY_MAX_ATTEMPTS transport calls, all to the same URL; each
\* call but the last got a status of the retry list (or raised); the
\* operation makes no further call after a response whose status is not in
\* the list, and does not end on a status of the list before the last
\* attempt.  Answered 500, 502, 200 it makes exactly 3 calls and returns.
C16_RetryOn5xx ==
    Retries =>
        /\ Len(transport) <= RETRY_MAX_ATTEMPTS
        /\ Len(received) <= Len(transport)
        /\ Len(transport) <= Len(received) + 1
        /\ \A i \in 1..Len(transport) : transport[i] = target
        /\ \A i \in 1..Len(received) :
              received[i] \notin RETRY_STATUS_CODES \cup {NoStatus} =>
                  i = Len(received) /\ i = Len(transport) /\ r_pc \in {"check", "done"}
        /\ (r_pc \in {"check", "done"} /\ received # <<>>
              /\ received[Len(received)] \in RETRY_STATUS_CODES \cup {NoStatus}) =>
                  Len(transport) = RETRY_MAX_ATTEMPTS
        /\ (r_pc = "done" /\ received = <<500, 502, 200>> /\ response.json) =>
              Len(transport) = 3 /\ outcome = Returned(200)

C16_Witness ==
    /\ call.name = "ingest_events"
    /\ r_pc = "done"
    /\ received = <<500, 502, 200>>
    /\ Len(transport) = 3
    /\ slept = <<1, 2>>
    /\ outcome = Returned(200)

\* C17.  AsyncDatasetsClient.get whose first response is 503 makes a second
\* transport call, and returns the dataset if the second response is 200.
C17_DatasetsGetRetries ==
    (call.name = "datasets.get" /\ r_pc = "done" /\ received # <<>> /\ received[1] = 503) =>
        /\ Len(transport) = 2
        /\ Len(received) = 2
        /\ (received[2] = 200 /\ response.json) => outcome = Returned(200)

----------------------------------------------------------------------------
\* Durations: the conversions applied to the texts given.

\* The texts given: every digit with every unit, and with a letter that is
\* no unit.
TextsGiven == {<<c, u>> : c \in Digits, u \in Units \cup {"x"}}

UtilOnly == UNCHANGED <<hvars, tvars, avars, pvars, gvars, kvars, rvars, dvars, evars>>

\* A timedelta field is decoded from the text given.
Decode ==
    /\ given # NoText
    /\ duration = NoDuration
    /\ duration' = ConvertStringToTimedelta(given)
    /\ UNCHANGED <<given, serialized, decoded>>
    /\ UtilOnly

\* The timedelta is serialized.
Serialize ==
    /\ duration.kind = "timedelta"
    /\ serialized = NoText
    /\ serialized' = HandleJsonSerialization(duration)
    /\ UNCHANGED <<given, duration, decoded>>
    /\ UtilOnly

\* The serialized form is decoded again.
DecodeSerialized ==
    /\ serialized # NoText
    /\ decoded = NoDuration
    /\ decoded' = ConvertStringToTimedelta(serialized)
    /\ UNCHANGED <<given, duration, serialized>>
    /\ UtilOnly

UtilInit ==
    /\ HandlerInit
    /\ Sync
    /\ ClientInit
    /\ RequestIdle
    /\ ExtraIdle
    /\ given \in TextsGiven
    /\ duration = NoDuration
    /\ serialized = NoText
    /\ decoded = NoDuration

UtilNext == Decode \/ Serialize \/ DecodeSerialized

UtilSpec == UtilInit /\ [][UtilNext]_vars

\* C20.  For every duration d that a text of one digit and a unit s, m, h
\* or d denotes, decoding the serialized form of d gives d.
C20_DurationRoundTrip ==
    (given[2] \in Units /\ decoded # NoDuration) => decoded = duration

\* C20, the part that holds: the durations of less than ten seconds.
C20_SecondsRoundTrip ==
    (given[2] \in Units /\ decoded # NoDuration
        /\ duration.days = 0 /\ duration.seconds < 10) => decoded = duration

----------------------------------------------------------------------------
\* AsyncAxiomHandler: where a record is.

\* Record r is in self.buffer.
Buffered(r) == r \in Range(buffer)

\* Record r is in a batch whose ingest_events call is in progress.
InFlight(r) == \E p \in Procs : pc[p] = "ingesting" /\ r \in Range(local_buffer[p])

\* Record r is in the buffer, in flight or accepted.
Kept(r) == Buffered(r) \/ InFlight(r) \/ r \in accepted

\* In this step p's ingest_events call raises and its flush returns.
FailsAndReturns(p) ==
    pc[p] = "ingesting" /\ pc'[p] # "ingesting" /\ failures' = failures + 1

\* C24.  AsyncAxiomHandler, under emit, flush, the periodic flush and
\* ingest_events calls that raise (close() not called): every emitted record
\* is at all times in the buffer, in a batch in flight, or was accepted by an
\* ingest_events call that returned; and when the flush of a failed batch
\* returns, the batch is back in the buffer.
C24_NoLossUnderFailure ==
    /\ []((Async /\ ~closed) => \A r \in 1..emitted : Kept(r))
    /\ [][\A p \in Procs :
            (Async /\ FailsAndReturns(p))
                => Range(local_buffer[p]) \subseteq Range(buffer')]_vars

\* A batch has failed and is back in the buffer, after another was accepted.
C24_Witness ==
    /\ Async
    /\ ~closed
    /\ failures >= 1
    /\ accepted # {}
    /\ \E r \in Range(buffer) : Sent(r)

\* C25.  AsyncAxiomHandler: when close() has returned, every emitted record
\* was accepted by an ingest_events call that ran to completion, or is in
\* the buffer (or in the batch of a flush task that is still running).
C25_CloseLosesNothing ==
    (Async /\ closed /\ pc[Main] = "idle") => \A r \in 1..emitted : Kept(r)

----------------------------------------------------------------------------
\* async_retry, the end of the loop.

\* The operation went through async_retry and has ended.
RetryEnded == Retries /\ r_pc = "done" /\ received # <<>>

\* Every attempt async_retry could make got a status of the retry list.
AllRetryStatuses ==
    /\ Len(received) = RETRY_MAX_ATTEMPTS
    /\ \A i \in 1..Len(received) : received[i] \in RETRY_STATUS_CODES

\* The wrapper ends with the response of its last call, or raises the
\* RequestError of its last call; never RuntimeError.
EndsOnLastCall ==
    /\ outcome.kind # "RuntimeError"
    /\ \/ outcome = Raised("RequestError") /\ received[Len(received)] = NoStatus
       \/ /\ outcome # Raised("RequestError")
          /\ response.status = received[Len(received)]

\* C26.  async_retry makes at most 3 calls and ends with the response or
\* the RequestError of its last call, never with RuntimeError; when all 3
\* attempts got a status of the retry list, the operation raises AxiomError
\* with the status of the third response.
C26_RetryEnds ==
    Retries =>
        /\ Len(transport) <= RETRY_MAX_ATTEMPTS
        /\ RetryEnded => EndsOnLastCall
        /\ (RetryEnded /\ AllRetryStatuses) =>
              /\ outcome.kind = "AxiomError"
              /\ outcome.status = received[RETRY_MAX_ATTEMPTS]

\* C26, the part that holds: the third response has a JSON body.
C26_WithJsonBody ==
    Retries =>
        /\ Len(transport) <= RETRY_MAX_ATTEMPTS
        /\ RetryEnded => EndsOnLastCall
        /\ (RetryEnded /\ AllRetryStatuses /\ response.json) =>
              /\ outcome.kind = "AxiomError"
              /\ outcome.status = received[RETRY_MAX_ATTEMPTS]

----------------------------------------------------------------------------
\* C27.  The functions the shutdown_hook of a client invokes were
\* registered through before_shutdown of that same client.
C27_HooksPerClient ==
    hook # NoClient => \A i \in 1..Len(invoked) : invoked[i] = hook

----------------------------------------------------------------------------
\* Datasets: delete and trim.

\* delete or trim of AsyncDatasetsClient has ended on a response with a
\* success status.
ManagementSucceeded ==
    /\ AsyncClient
    /\ call.name \in {"datasets.delete", "datasets.trim"}
    /\ r_pc = "done"
    /\ response.status \in {200, 204}

\* C23.  delete and trim of AsyncDatasetsClient never raise on a response
\* with a success status, whatever its body: they complete on a 204.
C23_SuccessNeverRaises ==
    ManagementSucceeded => outcome = Returned(response.status)

\* C23, the part that holds: the body of the response is JSON.
C23_WithJsonBody ==
    (ManagementSucceeded /\ response.json) => outcome = Returned(response.status)

\* C30.  trim sends maxDuration as the total number of seconds of the
\* duration followed by "s", for every duration, those of a day or more
\* included: 7 days is sent as 604800s.
C30_TrimTotalSeconds ==
    call.name = "datasets.trim" =>
        /\ payload = TrimRequest_total(maxDuration)
        /\ maxDuration = TimeDelta(7, 0) =>
              payload = <<"6", "0", "4", "8", "0", "0", "s">>

\* C30, the part that holds: the durations of less than a day.
C30_UnderOneDay ==
    (call.name = "datasets.trim" /\ maxDuration.days = 0) =>
        payload = TrimRequest_total(maxDuration)

----------------------------------------------------------------------------
\* Query options and the ingest status: _prepare_query_options
\* (client.py:465-479, client_async.py:385-407) and the decoding of an
\* ingest response, from_dict(IngestStatus, decamelize(res.json()))
\* (client.py:381-382, client_async.py:228-229).

\* QueryKind.value (query/__init__.py).
QueryKindValue(k) ==
    CASE k = "ANALYTICS" -> "analytics"
      [] k = "STREAM" -> "stream"
      [] k = "APL" -> "apl"

\* bool(td) of a timedelta or None; str(b) of a bool.
Truthy(td) == td.kind = "timedelta" /\ (td.days # 0 \/ td.seconds # 0)
BoolStr(b) == IF b THEN <<"True">> ELSE <<"False">>

\* The keys of the Dict _prepare_query_options builds, and the Dict.
ParamKeys(o) ==
    {"nocache"}
    \cup (IF Truthy(o.streamingDuration) THEN {"streaming-duration"} ELSE {})
    \cup (IF o.saveAsKind # "None" THEN {"saveAsKind"} ELSE {})
PrepareQueryOptions(o) ==
    IF o.kind = "None" THEN [k \in {} |-> <<>>]
    ELSE [k \in ParamKeys(o) |->
            CASE k = "streaming-duration" -> Decimal(o.streamingDuration.seconds) \o <<"s">>
              [] k = "saveAsKind" -> <<QueryKindValue(o.saveAsKind)>>
              [] k = "nocache" -> BoolStr(o.nocache)]

\* The options given: any QueryOptions, or None.
NoneOpts == [kind |-> "None", streamingDuration |-> NoDuration, nocache |-> FALSE, saveAsKind |-> "None"]
OptionsGiven ==
    {[kind |-> "QueryOptions", streamingDuration |-> sd, nocache |-> nc, saveAsKind |-> k] :
        sd \in TrimDurations \cup {NoDuration, TimeDelta(0, 0)},
        nc \in BOOLEAN,
        k \in {"None", "ANALYTICS", "STREAM", "APL"}}
    \cup {NoneOpts}

\* humps.decamelize of a key: an upper-case letter that follows a
\* lower-case one begins a new word, and the key is lower-cased.
LowerChars == <<"a", "b", "c", "d", "e", "f", "g", "h", "i", "j", "k", "l", "m", "n", "o", "p", "q", "r", "s", "t", "u", "v", "w", "x", "y", "z">>
UpperChars == <<"A", "B", "C", "D", "E", "F", "G", "H", "I", "J", "K", "L", "M", "N", "O", "P", "Q", "R", "S", "T", "U", "V", "W", "X", "Y", "Z">>
IsUpper(c) == \E i \in 1..Len(UpperChars) : UpperChars[i] = c
IsLower(c) == \E i \in 1..Len(LowerChars) : LowerChars[i] = c
Lower(c) == IF IsUpper(c) THEN LowerChars[CHOOSE i \in 1..Len(UpperChars) : UpperChars[i] = c] ELSE c
Upper(c) == IF IsLower(c) THEN UpperChars[CHOOSE i \in 1..Len(LowerChars) : LowerChars[i] = c] ELSE c
RECURSIVE DecamelizeKey(_)
DecamelizeKey(key) ==
    IF key = <<>> THEN <<>>
    ELSE LET n == Len(key)
             front == SubSeq(key, 1, n - 1) IN
         IF n > 1 /\ IsUpper(key[n]) /\ IsLower(key[n - 1])
         THEN DecamelizeKey(front) \o <<"_", Lower(key[n])>>
         ELSE DecamelizeKey(front) \o <<Lower(key[n])>>

\* humps.decamelize of a dict: every key is converted.
Decamelize_asis(data) == data
Decamelize(data) ==
    [k \in {DecamelizeKey(j) : j \in DOMAIN data} |->
        data[CHOOSE j \in DOMAIN data : DecamelizeKey(j) = k]]

\* The fields of IngestStatus (client.py:42-51), each a list of words.
IngestStatusFields ==
    [ingested |-> <<<<"i", "n", "g", "e", "s", "t", "e", "d">>>>,
     failed |-> <<<<"f", "a", "i", "l", "e", "d">>>>,
     failures |-> <<<<"f", "a", "i", "l", "u", "r", "e", "s">>>>,
     processed_bytes |-> <<<<"p", "r", "o", "c", "e", "s", "s", "e", "d">>, <<"b", "y", "t", "e", "s">>>>,
     blocks_created |-> <<<<"b", "l", "o", "c", "k", "s">>, <<"c", "r", "e", "a", "t", "e", "d">>>>,
     wal_length |-> <<<<"w", "a", "l">>, <<"l", "e", "n", "g", "t", "h">>>>]
FieldNames == DOMAIN IngestStatusFields

\* A field's name in snake_case and in camelCase.
Capitalized(w) == <<Upper(w[1])>> \o SubSeq(w, 2, Len(w))
RECURSIVE SnakeKey(_)
SnakeKey(words) ==
    IF Len(words) = 1 THEN words[1]
    ELSE SnakeKey(SubSeq(words, 1, Len(words) - 1)) \o <<"_">> \o words[Len(words)]
RECURSIVE CamelKey(_)
CamelKey(words) ==
    IF Len(words) = 1 THEN words[1]
    ELSE CamelKey(SubSeq(words, 1, Len(words) - 1)) \o Capitalized(words[Len(words)])

\* dacite.from_dict(IngestStatus, data): every field is required and is
\* looked up under its declared name; other keys are ignored.
MissingValueError ==
    [kind |-> "MissingValueError", ingested |-> 0, failed |-> 0, failures |-> <<>>,
     processed_bytes |-> 0, blocks_created |-> 0, wal_length |-> 0]
FromDictIngestStatus(data) ==
    IF \E f \in FieldNames : SnakeKey(IngestStatusFields[f]) \notin DOMAIN data
    THEN MissingValueError
    ELSE [kind |-> "IngestStatus",
          ingested |-> data[SnakeKey(IngestStatusFields.ingested)],
          failed |-> data[SnakeKey(IngestStatusFields.failed)],
          failures |-> data[SnakeKey(IngestStatusFields.failures)],
          processed_bytes |-> data[SnakeKey(IngestStatusFields.processed_bytes)],
          blocks_created |-> data[SnakeKey(IngestStatusFields.blocks_created)],
          wal_length |-> data[SnakeKey(IngestStatusFields.wal_length)]]

\* The values a server reports, the fields it reports, and the two forms
\* of the response.
ValuesGiven ==
    [ingested : {2}, failed : {0}, failures : {<<>>},
     processed_bytes : {0, 100}, blocks_created : {1}, wal_length : {1, 2}]
FieldsGiven == {FieldNames, FieldNames \ {"wal_length"}}
CamelBody(vals, fields) ==
    [k \in {CamelKey(IngestStatusFields[f]) : f \in fields} |->
        vals[CHOOSE f \in fields : CamelKey(IngestStatusFields[f]) = k]]
SnakeBody(vals, fields) ==
    [k \in {SnakeKey(IngestStatusFields[f]) : f \in fields} |->
        vals[CHOOSE f \in fields : SnakeKey(IngestStatusFields[f]) = k]]
BodiesGiven ==
    {CamelBody(v, fs) : v \in ValuesGiven, fs \in FieldsGiven}
    \cup {SnakeBody(v, fs) : v \in ValuesGiven, fs \in FieldsGiven}

DecodeOnly == UNCHANGED <<hvars, tvars, avars, pvars, gvars, kvars, rvars, uvars, dvars, mvars, svars>>

\* _prepare_query_options(opts) is called.
Prepare ==
    /\ params = NoParams
    /\ params' = PrepareQueryOptions(opts)
    /\ UNCHANGED <<opts, ivars>>
    /\ DecodeOnly

\* ingest, its last two lines: decamelize and from_dict.
IngestDecode ==
    /\ ingest_status = NoIngestStatus
    /\ ingest_status' = FromDictIngestStatus(Decamelize(ingest_body))
    /\ UNCHANGED <<ingest_body, qvars>>
    /\ DecodeOnly

DecodeInit ==
    /\ HandlerInit
    /\ Sync
    /\ ClientInit
    /\ RequestIdle
    /\ UtilIdle
    /\ TrimIdle
    /\ TimersInit
    /\ ProcessorInit
    /\ opts \in OptionsGiven
    /\ params = NoParams
    /\ ingest_body \in BodiesGiven
    /\ ingest_status = NoIngestStatus

DecodeNext == Prepare \/ IngestDecode

DecodeSpec == DecodeInit /\ [][DecodeNext]_vars

\* C21.  An ingest response with all its keys in camelCase and the same
\* response with all its keys in snake_case decode to the same
\* IngestStatus; processedBytes 100, blocksCreated 1, walLength 1 decode to
\* processed_bytes = 100, blocks_created = 1, wal_length = 1.
C21_CaseInsensitiveKeys ==
    \A v \in ValuesGiven, fs \in FieldsGiven :
        (ingest_status # NoIngestStatus
            /\ ingest_body \in {CamelBody(v, fs), SnakeBody(v, fs)}) =>
            /\ ingest_status = FromDictIngestStatus(Decamelize(CamelBody(v, fs)))
            /\ ingest_status = FromDictIngestStatus(Decamelize(SnakeBody(v, fs)))
            /\ fs = FieldNames =>
                  /\ ingest_status.kind = "IngestStatus"
                  /\ ingest_status.processed_bytes = v.processed_bytes
                  /\ ingest_status.blocks_created = v.blocks_created
                  /\ ingest_status.wal_length = v.wal_length

\* The response of the example, in camelCase, is decoded.
C21_Witness ==
    /\ CamelKey(IngestStatusFields.processed_bytes) \in DOMAIN ingest_body
    /\ CamelKey(IngestStatusFields.wal_length) \in DOMAIN ingest_body
    /\ ingest_status.kind = "IngestStatus"
    /\ ingest_status.ingested = 2
    /\ ingest_status.processed_bytes = 100
    /\ ingest_status.blocks_created = 1
    /\ ingest_status.wal_length = 1

\* Options were given and the parameters are built.
Prepared == params # NoParams /\ opts.kind = "QueryOptions"

\* C22.  _prepare_query_options: nocache is always present, as "True" or
\* "False"; saveAsKind is present only when set, with its wire value;
\* streaming-duration is present only when set, and is the duration's
\* number of seconds followed by "s".
C22_QueryParams ==
    Prepared =>
        /\ "nocache" \in DOMAIN params
        /\ params["nocache"] = BoolStr(opts.nocache)
        /\ "saveAsKind" \in DOMAIN params <=> opts.saveAsKind # "None"
        /\ "saveAsKind" \in DOMAIN params =>
              params["saveAsKind"] = <<QueryKindValue(opts.saveAsKind)>>
        /\ "streaming-duration" \in DOMAIN params =>
              /\ opts.streamingDuration # NoDuration
              /\ params["streaming-duration"]
                    = Decimal(TotalSeconds(opts.streamingDuration)) \o <<"s">>

\* C22, the part that holds: streaming durations of less than a day.
C22_UnderOneDay ==
    (Prepared /\ opts.streamingDuration.days = 0) =>
        /\ "nocache" \in DOMAIN params
        /\ params["nocache"] = BoolStr(opts.nocache)
        /\ "saveAsKind" \in DOMAIN params <=> opts.saveAsKind # "None"
        /\ "saveAsKind" \in DOMAIN params =>
              params["saveAsKind"] = <<QueryKindValue(opts.saveAsKind)>>
        /\ "streaming-duration" \in DOMAIN params =>
              /\ opts.streamingDuration # NoDuration
              /\ params["streaming-duration"]
                    = Decimal(TotalSeconds(opts.streamingDuration)) \o <<"s">>

----------------------------------------------------------------------------
\* The timers of AxiomHandler (logging.py), with several logging threads.
\* A thread logs through logging.Handler.handle, which takes the handler's
\* lock around emit; the lock is made by Handler.__init__, which
\* AxiomHandler.__init__ calls (line 21).  Timer threads and the shutdown
\* hook take no lock.  What emit does to the buffer is left out here: flush
\* touches no timer; it may raise, and emit then ends before line 54.

\* Emits in one behaviour (every emit makes one Timer).
MaxTimers == 4

TimerOnly ==
    UNCHANGED <<hvars, tvars, avars, pvars, gvars, kvars, rvars, uvars, dvars, qvars, ivars, svars>>

\* The timers that are started and have neither fired nor been cancelled.
Armed == {i \in 1..Len(timers) : timers[i] = "armed"}

\* Timer.start(): a Timer cancelled before it is started never fires.
Started(st) == IF st = "new" THEN "armed" ELSE st

\* Handler.handle: the lock is taken, emit begins (lines 46-51).
HandleAcquire(t) ==
    /\ em_pc[t] = "idle"
    /\ lock = NoThread
    /\ Len(timers) <= MaxTimers
    /\ lock' = t
    /\ em_pc' = [em_pc EXCEPT ![t] = "emit"]
    /\ UNCHANGED <<timers, self_timer>>
    /\ TimerOnly

\* Lines 46-51 raise (ingest_events in flush): handle releases the lock.
EmitRaises(t) ==
    /\ em_pc[t] = "emit"
    /\ lock' = NoThread
    /\ em_pc' = [em_pc EXCEPT ![t] = "idle"]
    /\ UNCHANGED <<timers, self_timer>>
    /\ TimerOnly

\* Line 54: self.timer.cancel().
EmitCancel(t) ==
    /\ em_pc[t] = "emit"
    /\ timers' = [timers EXCEPT ![self_timer] = CancelTimer(@)]
    /\ em_pc' = [em_pc EXCEPT ![t] = "make"]
    /\ UNCHANGED <<lock, self_timer>>
    /\ TimerOnly

\* Line 55: self.timer = Timer(self.interval, self.flush).
EmitMake(t) ==
    /\ em_pc[t] = "make"
    /\ timers' = Append(timers, "new")
    /\ self_timer' = Len(timers) + 1
    /\ em_pc' = [em_pc EXCEPT ![t] = "start"]
    /\ UNCHANGED lock
    /\ TimerOnly

\* Line 56: self.timer.start(); emit returns and handle releases the lock.
EmitStart(t) ==
    /\ em_pc[t] = "start"
    /\ timers' = [timers EXCEPT ![self_timer] = Started(@)]
    /\ em_pc' = [em_pc EXCEPT ![t] = "idle"]
    /\ lock' = NoThread
    /\ UNCHANGED self_timer
    /\ TimerOnly

\* An armed Timer fires (its thread then runs flush).
TimerFires(i) ==
    /\ timers[i] = "armed"
    /\ timers' = [timers EXCEPT ![i] = "fired"]
    /\ UNCHANGED <<lock, em_pc, self_timer>>
    /\ TimerOnly

\* before_shutdown, line 40: self.timer.cancel(), under no lock.
HookCancel ==
    /\ timers[self_timer] \in {"new", "armed"}
    /\ timers' = [timers EXCEPT ![self_timer] = CancelTimer(@)]
    /\ UNCHANGED <<lock, em_pc, self_timer>>
    /\ TimerOnly

TimerSpecInit ==
    /\ HandlerInit
    /\ Sync
    /\ ClientInit
    /\ RequestIdle
    /\ UtilIdle
    /\ ExtraIdle

TimerNext ==
    \/ \E t \in Threads : HandleAcquire(t)
    \/ \E t \in Threads : EmitRaises(t)
    \/ \E t \in Threads : EmitCancel(t)
    \/ \E t \in Threads : EmitMake(t)
    \/ \E t \in Threads : EmitStart(t)
    \/ \E i \in 1..Len(timers) : TimerFires(i)
    \/ HookCancel

TimerSpec == TimerSpecInit /\ [][TimerNext]_vars

\* C28.  An AxiomHandler has at most one armed Timer at every moment, and
\* when an emit starts a Timer no other is armed, under every interleaving
\* of emits from several threads and of timer firings.
C28_OneArmedTimer ==
    /\ [](Cardinality(Armed) <= 1)
    /\ [][\A i \in 1..Len(timers') :
            (timers'[i] = "armed" /\ (i > Len(timers) \/ timers[i] # "armed"))
                => Armed' = {i}]_vars

\* A second emit, from another thread, has cancelled the armed Timer of the
\* first and its own Timer is armed.
C28_Witness ==
    /\ Len(timers) >= 3
    /\ timers[2] = "cancelled"
    /\ timers[3] = "armed"
    /\ lock = NoThread

----------------------------------------------------------------------------
\* AxiomProcessor (structlog.py), called from several threads; it takes no
\* lock.  Client.ingest_events (client.py:394-397) encodes the events by
\* iterating over the list it is given, which is self.buffer itself, and
\* then sends them: a record appended before the encoding is over is in the
\* payload, a later one is not.

ProcessorOnly ==
    UNCHANGED <<hvars, tvars, avars, pvars, gvars, kvars, rvars, uvars, dvars, qvars, ivars, mvars>>

\* __call__, lines 36-41: append and test.  MAX_BATCH stands for the
\* literal 1000 of line 38.
ProcessorCall(t) ==
    /\ sp_pc[t] = "idle"
    /\ sp_emitted < MaxEmit
    /\ sp_emitted' = sp_emitted + 1
    /\ sp_buffer' = Append(sp_buffer, sp_emitted + 1)
    /\ sp_pc' = [sp_pc EXCEPT ![t] =
                    IF Len(sp_buffer') >= MAX_BATCH \/ sp_elapsed > Interval
                    THEN "flush" ELSE "idle"]
    /\ UNCHANGED <<sp_elapsed, sp_payload, sp_accepted>>
    /\ ProcessorOnly

\* flush is called from outside __call__: atexit.register(self.flush),
\* line 26.
ProcessorAtExit(t) ==
    /\ sp_pc[t] = "idle"
    /\ sp_buffer # <<>>
    /\ sp_pc' = [sp_pc EXCEPT ![t] = "flush"]
    /\ UNCHANGED <<sp_buffer, sp_elapsed, sp_payload, sp_emitted, sp_accepted>>
    /\ ProcessorOnly

\* flush, lines 29-32: stamp last_run, return if the buffer is empty, else
\* call ingest_events with self.buffer.
ProcessorFlush(t) ==
    /\ sp_pc[t] = "flush"
    /\ sp_elapsed' = 0
    /\ sp_pc' = [sp_pc EXCEPT ![t] = IF Len(sp_buffer) = 0 THEN "idle" ELSE "encoding"]
    /\ UNCHANGED <<sp_buffer, sp_payload, sp_emitted, sp_accepted>>
    /\ ProcessorOnly

\* ingest_events has encoded the list: the payload is what the list held.
ProcessorEncode(t) ==
    /\ sp_pc[t] = "encoding"
    /\ sp_payload' = [sp_payload EXCEPT ![t] = sp_buffer]
    /\ sp_pc' = [sp_pc EXCEPT ![t] = "posting"]
    /\ UNCHANGED <<sp_buffer, sp_elapsed, sp_emitted, sp_accepted>>
    /\ ProcessorOnly

\* ingest_events returns.
ProcessorIngestOk(t) ==
    /\ sp_pc[t] = "posting"
    /\ sp_accepted' = sp_accepted \cup Range(sp_payload[t])
    /\ sp_payload' = [sp_payload EXCEPT ![t] = <<>>]
    /\ sp_pc' = [sp_pc EXCEPT ![t] = "reset"]
    /\ UNCHANGED <<sp_buffer, sp_elapsed, sp_emitted>>
    /\ ProcessorOnly

\* ingest_events raises: the exception leaves flush and __call__, the
\* buffer is as it was.
ProcessorIngestRaises(t) ==
    /\ sp_pc[t] = "posting"
    /\ sp_payload' = [sp_payload EXCEPT ![t] = <<>>]
    /\ sp_pc' = [sp_pc EXCEPT ![t] = "idle"]
    /\ UNCHANGED <<sp_buffer, sp_elapsed, sp_emitted, sp_accepted>>
    /\ ProcessorOnly

\* flush, line 33: self.buffer = [].
ProcessorReset_kept(buf) == buf
ProcessorReset(buf) == <<>>
ProcessorResets(t) ==
    /\ sp_pc[t] = "reset"
    /\ sp_buffer' = ProcessorReset(sp_buffer)
    /\ sp_pc' = [sp_pc EXCEPT ![t] = "idle"]
    /\ UNCHANGED <<sp_elapsed, sp_payload, sp_emitted, sp_accepted>>
    /\ ProcessorOnly

\* Time passes.
ProcessorTick ==
    /\ sp_elapsed <= Interval
    /\ sp_elapsed' = sp_elapsed + 1
    /\ UNCHANGED <<sp_buffer, sp_pc, sp_payload, sp_emitted, sp_accepted>>
    /\ ProcessorOnly

ProcessorSpecInit ==
    /\ HandlerInit
    /\ Sync
    /\ ClientInit
    /\ RequestIdle
    /\ UtilIdle
    /\ ExtraIdle

ProcessorNext ==
    \/ \E t \in Threads : ProcessorCall(t)
    \/ \E t \in Threads : ProcessorAtExit(t)
    \/ \E t \in Threads : ProcessorFlush(t)
    \/ \E t \in Threads : ProcessorEncode(t)
    \/ \E t \in Threads : ProcessorIngestOk(t)
    \/ \E t \in Threads : ProcessorIngestRaises(t)
    \/ \E t \in Threads : ProcessorResets(t)
    \/ ProcessorTick

ProcessorSpec == ProcessorSpecInit /\ [][ProcessorNext]_vars

\* Record r is in the payload of an ingest_events call in progress.
Posting(r) == \E t \in Threads : sp_pc[t] = "posting" /\ r \in Range(sp_payload[t])

\* C29.  AxiomProcessor called from several threads loses no record: every
\* record logged is in the buffer, in the payload of a call in progress, or
\* was accepted; the reset of the buffer discards no record that was not
\* sent.
C29_ProcessorLosesNothing ==
    /\ [](\A r \in 1..sp_emitted :
            r \in Range(sp_buffer) \/ Posting(r) \/ r \in sp_accepted)
    /\ [][\A r \in Range(sp_buffer) :
            r \in Range(sp_buffer') \/ r \in sp_accepted]_vars

====
